---- MODULE Spec2Model ----
(***************************************************************************)
(* Verification model of the pipecat voice service:                        *)
(*   - main.py: the session endpoints (start_session, end_session), the    *)
(*     detached run_bot unit with its registry entry in active_sessions,   *)
(*     and the route_to_agent tool handler with its closure state          *)
(*     current_agent_ref, the generate_workflow and search_nodes handlers  *)
(*     with their relay task, and the live-transcript wrapper of           *)
(*     context.add_message;                                                *)
(*   - agents/orchestrator.py: the keyword classifier analyze_intent;      *)
(*   - services/workflow_client.py: the backend client.                    *)
(* Text is modelled as a sequence of one-character strings, so that        *)
(* lower-casing, substring search and formatting are computed.             *)
(***************************************************************************)
EXTENDS Integers, Sequences, FiniteSets, TLC

\* ---------------------------------------------------------------- bounds
MaxStarts == 2
MaxEnds == 2
MaxRoutes == 3
MaxFragments == 2
MaxCalls == 2
MaxMessages == 2

\* Names the room provider hands out, and a name it never hands out.
RoomNames == 1..MaxStarts
NeverARoom == MaxStarts + 1
AnyRoomName == RoomNames \cup {NeverARoom}

\* request.user_id is Optional[str].
NoUser == "None"
UserIds == {NoUser, "u1"}

VARIABLES
    daily_rooms,        \* rooms created at the provider (POST /v1/rooms)
    daily_tokens,       \* tokens created at the provider (POST /v1/meeting-tokens)
    starting,           \* start_session calls between the two POSTs
    start_calls,        \* start_session calls received
    start_responses,    \* SessionResponse values returned
    start_errors,       \* start_session calls answered HTTP 500
    bot,                \* position of each run_bot unit: "none" (not launched),
                        \* "created" (task created), "running" (in runner.run),
                        \* "failed" (ended before registering), "done" (ended)
    bot_user,           \* user_id argument of each run_bot unit
    active_sessions,    \* the global registry: room_name -> {task, user_id}
    cancel_requested,   \* PipelineTask objects on which cancel() was called
    ending,             \* end_session handlers suspended in await task.cancel()
    end_calls,          \* end_session calls received
    end_log,            \* the latest answers of end_session, in return order
    current_agent_ref,  \* per run_bot closure: current_agent_ref["name"]
    notifications,      \* agent_switch messages built, with the send outcome
    route_calls,        \* route_to_agent tool calls handled
    route_response,     \* last value passed to params.result_callback
    tool_exceptions,    \* exceptions that left a tool handler
    utterance,          \* the user_message given to analyze_intent
    intent_scores,      \* the scores dict analyze_intent built
    intent,             \* value analyze_intent returned
    wc_pc,              \* WorkflowClient call: "idle", "posted", "returned"
    wc_calls,           \* WorkflowClient calls made
    wc_request,         \* the request of the latest call
    wc_answer,          \* what the backend did with it
    wc_result,          \* the value the latest call returned
    backend_posts,      \* generate and search POSTs sent to the backend
    tool_calls,         \* generate_workflow and search_nodes tool calls started
    tool_results,       \* calls of params.result_callback by these handlers
    tool_response,      \* the value last passed to params.result_callback
    tool_errors,        \* exceptions that left one of these handlers
    relay_tasks,        \* send_workflow_to_backend tasks created and not yet run
    relay_posts,        \* POSTs attempted to /api/pipecat/workflow-generated
    relay_log,          \* the line the latest send_workflow_to_backend printed
    context_messages,   \* messages given to context.add_message
    transcript_tasks,   \* send_transcript_live tasks created, with their state
    add_result,         \* the value context.add_message last returned
    add_errors          \* exceptions that left context.add_message

vars == << daily_rooms, daily_tokens, starting, start_calls, start_responses,
           start_errors, bot, bot_user, active_sessions,
           cancel_requested, ending, end_calls, end_log,
           current_agent_ref, notifications, route_calls, route_response,
           tool_exceptions, utterance, intent_scores, intent, wc_pc, wc_calls,
           wc_request, wc_answer, wc_result, backend_posts,
           tool_calls, tool_results, tool_response, tool_errors, relay_tasks,
           relay_posts, relay_log, context_messages, transcript_tasks,
           add_result, add_errors >>

sessionVars == << daily_rooms, daily_tokens, starting, start_calls,
                  start_responses, start_errors, bot, bot_user,
                  active_sessions, cancel_requested, ending,
                  end_calls, end_log >>

routeVars == << current_agent_ref, notifications, route_calls, route_response,
               tool_exceptions >>

intentVars == << utterance, intent_scores, intent >>

clientVars == << wc_pc, wc_calls, wc_request, wc_answer, wc_result,
                backend_posts >>

toolVars == << tool_calls, tool_results, tool_response, tool_errors,
              relay_tasks, relay_posts, relay_log >>

transcriptVars == << context_messages, transcript_tasks, add_result,
                    add_errors >>

\* ------------------------------------------------------ generic helpers
Restrict(f, S) == [x \in S |-> f[x]]

Put(f, k, v) == [x \in (DOMAIN f) \cup {k} |-> IF x = k THEN v ELSE f[x]]

\* ------------------------------------------------------ session registry
\* run_bot starting its runner without storing the entry.
Register_missing(sessions, room_name, task, user_id) == sessions

\* active_sessions[room_name] = {"task": task, "user_id": user_id}
Register(sessions, room_name, task, user_id) ==
    Put(sessions, room_name, [task |-> task, user_id |-> user_id])

\* A finally block that empties the registry.
Cleanup_everything(sessions, room_name) == << >>

\* run_bot without its finally block.
Cleanup_missing(sessions, room_name) == sessions

\* finally: if room_name in active_sessions: del active_sessions[room_name]
Cleanup(sessions, room_name) ==
    IF room_name \in DOMAIN sessions
    THEN Restrict(sessions, (DOMAIN sessions) \ {room_name})
    ELSE sessions

\* The PipelineTask object built by the run_bot unit of a room; distinct units
\* build distinct objects.
TaskOf(room_name) == room_name

\* --------------------------------------------------------- start_session
\* room_data["name"]: the provider names each new room differently from the
\* rooms it has; the names carry no meaning, so the least unused one is taken.
NewRoomName(rooms) == CHOOSE n \in RoomNames \ rooms : \A m \in RoomNames \ rooms : n <= m

\* POST /v1/rooms: a 200 answer names a room the provider did not have; any
\* other answer, or an exception, ends the call with HTTP 500.
StartSessionCreateRoom(user_id, ok) ==
    /\ start_calls < MaxStarts
    /\ start_calls' = start_calls + 1
    /\ IF ok
       THEN LET room_name == NewRoomName(daily_rooms) IN
                /\ daily_rooms' = daily_rooms \cup {room_name}
                /\ starting' = starting \cup
                       {[room_name |-> room_name, user_id |-> user_id]}
                /\ UNCHANGED start_errors
       ELSE /\ start_errors' = start_errors + 1
            /\ UNCHANGED << daily_rooms, starting >>
    /\ UNCHANGED << daily_tokens, start_responses, bot, bot_user,
                    active_sessions, cancel_requested, ending,
                    end_calls, end_log >>
    /\ UNCHANGED routeVars
    /\ UNCHANGED intentVars
    /\ UNCHANGED clientVars
    /\ UNCHANGED << toolVars, transcriptVars >>

\* A token request without owner rights.
TokenProperties_non_owner(room_name) == [room_name |-> room_name, is_owner |-> FALSE]

\* json of the token request: {"properties": {"room_name": room_name, "is_owner": True}}
TokenProperties(room_name) == [room_name |-> room_name, is_owner |-> TRUE]

\* start_session returning its response without creating the task.
LaunchBot_missing(units, room_name) == units

\* asyncio.create_task(run_bot(room_url, room_name, request.user_id))
LaunchBot(units, room_name) == [units EXCEPT ![room_name] = "created"]

\* start_session without the status test of the token response: the unit is
\* launched and the response returned whatever the provider answered.
StartSessionCreateToken_unchecked(s, ok) ==
    /\ s \in starting
    /\ starting' = starting \ {s}
    /\ daily_tokens' = IF ok THEN daily_tokens \cup {TokenProperties(s.room_name)}
                      ELSE daily_tokens
    /\ bot' = LaunchBot(bot, s.room_name)
    /\ bot_user' = [bot_user EXCEPT ![s.room_name] = s.user_id]
    /\ start_responses' = start_responses \cup
           {[room_name |-> s.room_name,
             token |-> TokenProperties(s.room_name)]}
    /\ UNCHANGED start_errors
    /\ UNCHANGED << daily_rooms, start_calls, active_sessions,
                    cancel_requested, ending, end_calls, end_log >>
    /\ UNCHANGED routeVars
    /\ UNCHANGED intentVars
    /\ UNCHANGED clientVars
    /\ UNCHANGED << toolVars, transcriptVars >>

\* POST /v1/meeting-tokens, then asyncio.create_task(run_bot(...)) and the
\* SessionResponse; a failed token request ends the call with HTTP 500.
StartSessionCreateToken(s, ok) ==
    /\ s \in starting
    /\ starting' = starting \ {s}
    /\ IF ok
       THEN /\ daily_tokens' = daily_tokens \cup {TokenProperties(s.room_name)}
            /\ bot' = LaunchBot(bot, s.room_name)
            /\ bot_user' = [bot_user EXCEPT ![s.room_name] = s.user_id]
            /\ start_responses' = start_responses \cup
                   {[room_name |-> s.room_name,
                     token |-> TokenProperties(s.room_name)]}
            /\ UNCHANGED start_errors
       ELSE /\ start_errors' = start_errors + 1
            /\ UNCHANGED << daily_tokens, bot, bot_user, start_responses >>
    /\ UNCHANGED << daily_rooms, start_calls, active_sessions,
                    cancel_requested, ending, end_calls, end_log >>
    /\ UNCHANGED routeVars
    /\ UNCHANGED intentVars
    /\ UNCHANGED clientVars
    /\ UNCHANGED << toolVars, transcriptVars >>

\* ---------------------------------------------------------------- run_bot
InitialAgent == "orchestrator"

\* An exception raised while the unit builds its pipeline (before line 613):
\* except prints it, finally runs.
RunBotSetupFails(room_name) ==
    /\ bot[room_name] = "created"
    /\ bot' = [bot EXCEPT ![room_name] = "failed"]
    /\ active_sessions' = Cleanup(active_sessions, room_name)
    /\ current_agent_ref' = Put(current_agent_ref, room_name, InitialAgent)
    /\ notifications' = Put(notifications, room_name, << >>)
    /\ UNCHANGED << daily_rooms, daily_tokens, starting, start_calls,
                    start_responses, start_errors, bot_user, cancel_requested,
                    ending, end_calls, end_log >>
    /\ UNCHANGED << route_calls, route_response, tool_exceptions >>
    /\ UNCHANGED intentVars
    /\ UNCHANGED clientVars
    /\ UNCHANGED << toolVars, transcriptVars >>

\* Lines 199-620 hold no await before runner.run: the unit builds its closure
\* state, stores its registry entry and starts the runner in one step.
RunBotRegisters(room_name) ==
    /\ bot[room_name] = "created"
    /\ bot' = [bot EXCEPT ![room_name] = "running"]
    /\ active_sessions' = Register(active_sessions, room_name,
                                   TaskOf(room_name), bot_user[room_name])
    /\ current_agent_ref' = Put(current_agent_ref, room_name, InitialAgent)
    /\ notifications' = Put(notifications, room_name, << >>)
    /\ UNCHANGED << daily_rooms, daily_tokens, starting, start_calls,
                    start_responses, start_errors, bot_user,
                    cancel_requested, ending, end_calls, end_log >>
    /\ UNCHANGED << route_calls, route_response, tool_exceptions >>
    /\ UNCHANGED intentVars
    /\ UNCHANGED clientVars
    /\ UNCHANGED << toolVars, transcriptVars >>

ExitKinds == {"completed", "error", "cancelled"}

\* await runner.run(task) ends: normally, with an exception, or because the
\* task was cancelled; except/finally hold no await, so cleanup is in the step.
PipelineEnds(room_name, how) ==
    /\ bot[room_name] = "running"
    /\ how \in ExitKinds
    /\ how = "cancelled" => cancel_requested[TaskOf(room_name)]
    /\ bot' = [bot EXCEPT ![room_name] = "done"]
    /\ active_sessions' = Cleanup(active_sessions, room_name)
    /\ UNCHANGED << daily_rooms, daily_tokens, starting, start_calls,
                    start_responses, start_errors, bot_user, cancel_requested,
                    ending, end_calls, end_log >>
    /\ UNCHANGED routeVars
    /\ UNCHANGED intentVars
    /\ UNCHANGED clientVars
    /\ UNCHANGED << toolVars, transcriptVars >>

\* ------------------------------------------------------------ end_session
\* end_log keeps the two most recent answers.
Logged(log, answer) ==
    IF log = << >> THEN << answer >> ELSE << log[Len(log)], answer >>

\* end_session treating an unknown room as a failure.
EndSessionAnswer_unknown_fails(found) ==
    IF found
    THEN [success |-> TRUE, message |-> "Session ended"]
    ELSE [success |-> FALSE, message |-> "Session not found"]

\* The two answers of end_session.
EndSessionAnswer(found) ==
    IF found
    THEN [success |-> TRUE, message |-> "Session ended"]
    ELSE [success |-> TRUE, message |-> "Session not found (already ended)"]

\* end_session that never calls task.cancel().
CancelTask_missing(requested, task) == requested

\* await task.cancel(): the pipeline task is asked to stop.
CancelTask(requested, task) == [requested EXCEPT ![task] = TRUE]

\* if room_name in active_sessions: ... await task.cancel()
\* else: return the not-found answer at once.
EndSessionCall(room_name) ==
    /\ end_calls < MaxEnds
    /\ end_calls' = end_calls + 1
    /\ IF room_name \in DOMAIN active_sessions
       THEN LET task == active_sessions[room_name].task IN
            /\ cancel_requested' = CancelTask(cancel_requested, task)
            /\ ending' = [ending EXCEPT ![room_name] = @ + 1]
            /\ UNCHANGED end_log
       ELSE /\ end_log' = Logged(end_log,
                   [room_name |-> room_name] @@ EndSessionAnswer(FALSE))
            /\ UNCHANGED << cancel_requested, ending >>
    /\ UNCHANGED << daily_rooms, daily_tokens, starting, start_calls,
                    start_responses, start_errors, bot, bot_user,
                    active_sessions >>
    /\ UNCHANGED routeVars
    /\ UNCHANGED intentVars
    /\ UNCHANGED clientVars
    /\ UNCHANGED << toolVars, transcriptVars >>

\* task.cancel() returned: print, return the "Session ended" answer.
EndSessionReturn(room_name) ==
    /\ ending[room_name] > 0
    /\ ending' = [ending EXCEPT ![room_name] = @ - 1]
    /\ end_log' = Logged(end_log,
           [room_name |-> room_name] @@ EndSessionAnswer(TRUE))
    /\ UNCHANGED << daily_rooms, daily_tokens, starting, start_calls,
                    start_responses, start_errors, bot, bot_user,
                    active_sessions, cancel_requested, end_calls >>
    /\ UNCHANGED routeVars
    /\ UNCHANGED intentVars
    /\ UNCHANGED clientVars
    /\ UNCHANGED << toolVars, transcriptVars >>

\* ---------------------------------------------------------- route_to_agent
\* Keys of agent_prompts.
AgentPrompts == {"orchestrator", "sales", "support", "operations", "technical"}

\* args.get("agent") when the argument is missing.
NoAgent == "None"

\* Values the model passes as the agent argument: the schema's enum, the
\* orchestrator key, a name outside agent_prompts, and a missing argument.
AgentArgs == AgentPrompts \cup {"billing", NoAgent}

\* What the transport offers when the notification is sent:
\*   "no_client"  transport_ref has no _client, or it is falsy
\*   "no_method"  the client has no sendAppMessage
\*   "raises"     sendAppMessage raises
\*   "sent"       sendAppMessage returns
Clients == {"no_client", "no_method", "raises", "sent"}

\* The try block of switch_to_agent (lines 226-245): the line it prints, and
\* whether an exception leaves it. An exception of the send is caught and
\* printed; NotifyFrontend_unguarded is the block without its except clause.
NotifyFrontend_unguarded(client) ==
    [log |-> CASE client = "sent" -> "Sent notification to frontend"
               [] client = "no_method" -> "Daily client doesn't support sendAppMessage"
               [] client = "no_client" -> "No Daily client available for notification"
               [] OTHER -> "",
     raised |-> client = "raises"]

NotifyFrontend(client) ==
    [log |-> CASE client = "sent" -> "Sent notification to frontend"
               [] client = "no_method" -> "Daily client doesn't support sendAppMessage"
               [] client = "no_client" -> "No Daily client available for notification"
               [] client = "raises" -> "Failed to send notification",
     raised |-> FALSE]

\* switch_to_agent without the test agent_name != current_agent_ref["name"].
switch_to_agent_always(current, agent_name, client) ==
    IF agent_name \in AgentPrompts
    THEN [name |-> agent_name, switched |-> TRUE,
          messages |-> << [type |-> "agent_switch", agent |-> agent_name,
                           previous_agent |-> current,
                           log |-> NotifyFrontend(client).log] >>,
          raised |-> FALSE]
    ELSE [name |-> current, switched |-> FALSE, messages |-> << >>,
          raised |-> FALSE]

\* switch_to_agent without the assignment current_agent_ref["name"] = agent_name.
switch_to_agent_no_store(current, agent_name, client) ==
    IF agent_name \in AgentPrompts /\ agent_name # current
    THEN [name |-> current, switched |-> TRUE,
          messages |-> << [type |-> "agent_switch", agent |-> agent_name,
                           previous_agent |-> current,
                           log |-> NotifyFrontend(client).log] >>,
          raised |-> FALSE]
    ELSE [name |-> current, switched |-> FALSE, messages |-> << >>,
          raised |-> FALSE]

\* switch_to_agent without the test agent_name in agent_prompts.
switch_to_agent_unchecked(current, agent_name, client) ==
    IF agent_name # current
    THEN [name |-> agent_name, switched |-> TRUE,
          messages |-> << [type |-> "agent_switch", agent |-> agent_name,
                           previous_agent |-> current,
                           log |-> NotifyFrontend(client).log] >>,
          raised |-> FALSE]
    ELSE [name |-> current, switched |-> FALSE, messages |-> << >>,
          raised |-> FALSE]

\* switch_to_agent reading old_agent after the assignment to
\* current_agent_ref["name"].
switch_to_agent_late_read(current, agent_name, client) ==
    IF agent_name \in AgentPrompts /\ agent_name # current
    THEN [name |-> agent_name, switched |-> TRUE,
          messages |-> << [type |-> "agent_switch", agent |-> agent_name,
                           previous_agent |-> agent_name,
                           log |-> NotifyFrontend(client).log] >>,
          raised |-> FALSE]
    ELSE [name |-> current, switched |-> FALSE, messages |-> << >>,
          raised |-> FALSE]

\* switch_to_agent(agent_name, llm_service, transport_ref) on the closure value
\* current: the new value, the return value, the messages built, and whether
\* an exception leaves the function.
switch_to_agent(current, agent_name, client) ==
    IF agent_name \in AgentPrompts /\ agent_name # current
    THEN LET sent == NotifyFrontend(client) IN
         [name |-> agent_name,
          switched |-> TRUE,
          messages |-> << [type |-> "agent_switch",
                           agent |-> agent_name,
                           previous_agent |-> current,
                           log |-> sent.log] >>,
          raised |-> sent.raised]
    ELSE [name |-> current, switched |-> FALSE, messages |-> << >>,
          raised |-> FALSE]

\* {...}.get(agent, "Great! Let's go!")
specialist_message(agent) ==
    CASE agent = "sales" -> "Got it! What CRM?"
      [] agent = "support" -> "Perfect! What ticketing system?"
      [] agent = "operations" -> "Nice! What data sources?"
      [] agent = "technical" -> "Cool! What services?"
      [] OTHER -> "Great! Let's go!"

\* A response that reports routed = true for every known agent, whether or
\* not the call switched to it.
RouteResponse_known_agent(switched, agent) ==
    IF agent \in AgentPrompts
    THEN [routed |-> TRUE, agent |-> agent, message |-> specialist_message(agent)]
    ELSE [routed |-> FALSE, error |-> << "Could not route to ", agent >>]

\* The response handle_route_to_agent builds from the value of switched.
RouteResponse(switched, agent) ==
    IF switched
    THEN [routed |-> TRUE, agent |-> agent, message |-> specialist_message(agent)]
    ELSE [routed |-> FALSE, error |-> << "Could not route to ", agent >>]

\* handle_route_to_agent(params) in the session of room_name, called by the
\* model runtime while the pipeline runs.
handle_route_to_agent(room_name, agent, client) ==
    /\ room_name \in RoomNames
    /\ bot[room_name] = "running"
    /\ route_calls' = route_calls + 1
    /\ LET sw == switch_to_agent(current_agent_ref[room_name], agent, client) IN
       /\ current_agent_ref' = [current_agent_ref EXCEPT ![room_name] = sw.name]
       /\ notifications' = [notifications EXCEPT ![room_name] = @ \o sw.messages]
       /\ IF sw.raised
          THEN /\ tool_exceptions' = tool_exceptions + 1
               /\ UNCHANGED route_response
          ELSE /\ route_response' =
                      [room_name |-> room_name,
                       response |-> RouteResponse(sw.switched, agent)]
               /\ UNCHANGED tool_exceptions
    /\ UNCHANGED sessionVars
    /\ UNCHANGED intentVars
    /\ UNCHANGED clientVars
    /\ UNCHANGED << toolVars, transcriptVars >>

\* ------------------------------------------------------------------- text
\* str.lower() on the letters A-Z; every other character is kept.
LowerCase ==
     "A" :> "a" @@ "B" :> "b" @@ "C" :> "c" @@ "D" :> "d" @@ "E" :> "e" @@ "F" :> "f" @@
     "G" :> "g" @@ "H" :> "h" @@ "I" :> "i" @@ "J" :> "j" @@ "K" :> "k" @@ "L" :> "l" @@
     "M" :> "m" @@ "N" :> "n" @@ "O" :> "o" @@ "P" :> "p" @@ "Q" :> "q" @@ "R" :> "r" @@
     "S" :> "s" @@ "T" :> "t" @@ "U" :> "u" @@ "V" :> "v" @@ "W" :> "w" @@ "X" :> "x" @@
     "Y" :> "y" @@ "Z" :> "z"

\* Lower-casing that changes nothing.
Lower_identity(text) == text

\* user_message.lower()
Lower(text) ==
    [i \in 1..Len(text) |->
        IF text[i] \in DOMAIN LowerCase THEN LowerCase[text[i]] ELSE text[i]]

\* kw in text: kw is a contiguous part of text.
Contains(kw, text) ==
    \E i \in 0..(Len(text) - Len(kw)) : SubSeq(text, i + 1, i + Len(kw)) = kw

\* -------------------------------------------- OrchestratorAgent.analyze_intent
\* orchestrator.py lines 22-23
sales_keywords ==
    << << "c", "r", "m" >>,   \* crm
       << "l", "e", "a", "d" >>,   \* lead
       << "s", "a", "l", "e", "s" >>,   \* sales
       << "p", "i", "p", "e", "l", "i", "n", "e" >>,   \* pipeline
       << "d", "e", "a", "l" >>,   \* deal
       << "c", "u", "s", "t", "o", "m", "e", "r" >>,   \* customer
       << "h", "u", "b", "s", "p", "o", "t" >>,   \* hubspot
       << "s", "a", "l", "e", "s", "f", "o", "r", "c", "e" >>,   \* salesforce
       << "p", "i", "p", "e", "d", "r", "i", "v", "e" >>,   \* pipedrive
       << "p", "r", "o", "s", "p", "e", "c", "t" >> >>   \* prospect

\* orchestrator.py lines 26-27
support_keywords ==
    << << "t", "i", "c", "k", "e", "t" >>,   \* ticket
       << "s", "u", "p", "p", "o", "r", "t" >>,   \* support
       << "h", "e", "l", "p", "d", "e", "s", "k" >>,   \* helpdesk
       << "z", "e", "n", "d", "e", "s", "k" >>,   \* zendesk
       << "i", "n", "t", "e", "r", "c", "o", "m" >>,   \* intercom
       << "c", "u", "s", "t", "o", "m", "e", "r", " ", "s", "e", "r", "v", "i", "c", "e" >>,   \* customer service
       << "e", "s", "c", "a", "l", "a", "t", "e" >>,   \* escalate
       << "s", "l", "a" >> >>   \* sla

\* orchestrator.py lines 30-31
ops_keywords ==
    << << "d", "a", "t", "a" >>,   \* data
       << "s", "y", "n", "c" >>,   \* sync
       << "r", "e", "p", "o", "r", "t" >>,   \* report
       << "s", "c", "h", "e", "d", "u", "l", "e" >>,   \* schedule
       << "b", "a", "c", "k", "u", "p" >>,   \* backup
       << "d", "a", "t", "a", "b", "a", "s", "e" >>,   \* database
       << "a", "n", "a", "l", "y", "t", "i", "c", "s" >>,   \* analytics
       << "d", "a", "i", "l", "y" >>,   \* daily
       << "w", "e", "e", "k", "l", "y" >>,   \* weekly
       << "m", "o", "n", "t", "h", "l", "y" >> >>   \* monthly

\* orchestrator.py lines 34-35
tech_keywords ==
    << << "a", "p", "i" >>,   \* api
       << "w", "e", "b", "h", "o", "o", "k" >>,   \* webhook
       << "h", "t", "t", "p" >>,   \* http
       << "r", "e", "s", "t" >>,   \* rest
       << "e", "n", "d", "p", "o", "i", "n", "t" >>,   \* endpoint
       << "d", "a", "t", "a", "b", "a", "s", "e" >>,   \* database
       << "p", "o", "s", "t", "g", "r", "e", "s" >>,   \* postgres
       << "m", "y", "s", "q", "l" >>,   \* mysql
       << "i", "n", "t", "e", "g", "r", "a", "t", "i", "o", "n" >>,   \* integration
       << "a", "u", "t", "h", "e", "n", "t", "i", "c", "a", "t", "i", "o", "n" >> >>   \* authentication

\* sum(1 for kw in keywords if kw in message_lower)
Score(keywords, message_lower) ==
    Cardinality({i \in 1..Len(keywords) : Contains(keywords[i], message_lower)})

\* Keys of the scores dict, in insertion order.
ScoreKeys == << "sales", "support", "operations", "technical" >>

\* The scores dict of lines 38-49.
keyword_scores(user_message) ==
    LET message_lower == Lower(user_message) IN
    [sales |-> Score(sales_keywords, message_lower),
     support |-> Score(support_keywords, message_lower),
     operations |-> Score(ops_keywords, message_lower),
     technical |-> Score(tech_keywords, message_lower)]

\* max(scores.values())
MaxScore(scores) ==
    CHOOSE m \in {scores[k] : k \in DOMAIN scores} :
        \A k \in DOMAIN scores : scores[k] <= m

\* The key of the greatest value that comes last in insertion order.
MaxKey_last(scores) ==
    LET best == MaxScore(scores)
        last == CHOOSE i \in 1..Len(ScoreKeys) :
                    /\ scores[ScoreKeys[i]] = best
                    /\ \A j \in (i + 1)..Len(ScoreKeys) : scores[ScoreKeys[j]] # best
    IN ScoreKeys[last]

\* max(scores, key=scores.get): the first key, in insertion order, whose value
\* is the greatest.
MaxKey(scores) ==
    LET best == MaxScore(scores)
        first == CHOOSE i \in 1..Len(ScoreKeys) :
                     /\ scores[ScoreKeys[i]] = best
                     /\ \A j \in 1..(i - 1) : scores[ScoreKeys[j]] # best
    IN ScoreKeys[first]

\* The return value None.
NoIntent == "None"

\* analyze_intent without the test max_score > 0.
analyze_intent_unguarded(user_message) == MaxKey(keyword_scores(user_message))

\* analyze_intent returning the first domain that matched at all.
analyze_intent_first_hit(user_message) ==
    LET scores == keyword_scores(user_message)
        hits == {i \in 1..Len(ScoreKeys) : scores[ScoreKeys[i]] > 0}
    IN IF hits = {} THEN NoIntent
       ELSE ScoreKeys[CHOOSE i \in hits : \A j \in hits : i <= j]

\* analyze_intent(user_message)
analyze_intent(user_message) ==
    LET scores == keyword_scores(user_message) IN
    IF MaxScore(scores) > 0 THEN MaxKey(scores) ELSE NoIntent

\* Pieces of utterances: greetings, keywords in mixed case, keywords inside
\* longer words, and halves of keywords that join across pieces.
Fragments ==
    {
      << "H", "e", "l", "l", "o", " " >>,   \* "Hello "
      << "C", "R", "M", " " >>,   \* "CRM "
      << "l", "e", "a", "d", "s", " " >>,   \* "leads "
      << "c", "u", "s", "t", "o", "m", "e", "r" >>,   \* "customer"
      << " ", "s", "e", "r", "v", "i", "c", "e", " " >>,   \* " service "
      << "t", "i", "c", "k", "e", "t", " " >>,   \* "ticket "
      << "d", "a", "t", "a" >>,   \* "data"
      << "b", "a", "s", "e", " " >>,   \* "base "
      << "d", "a", "t", "a", "b", "a", "s", "e", " " >>,   \* "database "
      << "A", "P", "I", " " >>,   \* "API "
      << "i", "n", "t", "e", "r", "e", "s", "t", " " >> }   \* "interest "

\* The utterance of the routing example.
ExampleUtterance ==
    << "I", " ", "n", "e", "e", "d", " ", "t", "o", " ", "s", "y", "n", "c", " ", "l", "e", "a", "d", "s", " ", "i", "n", "t", "o", " ", "o", "u", "r", " ", "C", "R", "M" >>

RECURSIVE Compose(_)
\* The utterances made of exactly n fragments.
Compose(n) ==
    IF n = 0 THEN { << >> }
    ELSE { u \o f : u \in Compose(n - 1), f \in Fragments }

Utterances ==
    UNION { Compose(n) : n \in 0..MaxFragments } \cup { ExampleUtterance }

NotAnalyzed == "pending"

NoScores == [k \in {} |-> 0]

\* One call of analyze_intent on the utterance at hand.
AnalyzeIntent ==
    /\ intent = NotAnalyzed
    /\ intent_scores' = keyword_scores(utterance)
    /\ intent' = analyze_intent(utterance)
    /\ UNCHANGED utterance
    /\ UNCHANGED << sessionVars, routeVars, clientVars >>
    /\ UNCHANGED << toolVars, transcriptVars >>

\* ------------------------------------------------------- JSON and text
\* An object without keys: the default {} of dict.get.
EmptyObject == [k \in {} |-> 0]

\* obj.get(key, default)
Get(obj, key, default) == IF key \in DOMAIN obj THEN obj[key] ELSE default

RECURSIVE Join(_, _)
\* sep.join(items) on a list of texts
Join(items, sep) ==
    IF items = << >> THEN << >>
    ELSE IF Len(items) = 1 THEN items[1]
    ELSE items[1] \o sep \o Join(Tail(items), sep)

\* text.split(':')[0]: the text before its first colon, or all of it.
BeforeColon(text) ==
    IF \E i \in 1..Len(text) : text[i] = ":"
    THEN LET first == CHOOSE i \in 1..Len(text) :
                          /\ text[i] = ":"
                          /\ \A j \in 1..(i - 1) : text[j] # ":"
         IN SubSeq(text, 1, first - 1)
    ELSE text

\* The whole node list.
FirstFive_all(nodes) == nodes

\* nodes[:5]
FirstFive(nodes) == SubSeq(nodes, 1, IF Len(nodes) < 5 THEN Len(nodes) ELSE 5)

\* ", "
CommaSpace ==
    << ",", " " >>

\* ": "
ColonSpace ==
    << ":", " " >>

\* "Unknown"
UnknownText ==
    << "U", "n", "k", "n", "o", "w", "n" >>

\* "Unknown error"
UnknownErrorText ==
    << "U", "n", "k", "n", "o", "w", "n", " ", "e", "r", "r", "o", "r" >>

\* "Done! Created "
DoneCreatedText ==
    << "D", "o", "n", "e", "!", " ", "C", "r", "e", "a", "t", "e", "d",
       " " >>

\* " nodes."
NodesText ==
    << " ", "n", "o", "d", "e", "s", "." >>

\* " Deploy it?"
DeployText ==
    << " ", "D", "e", "p", "l", "o", "y", " ", "i", "t", "?" >>

\* " You'll need to set up credentials for: "
CredentialsText ==
    << " ", "Y", "o", "u", "'", "l", "l", " ", "n", "e", "e", "d", " ",
       "t", "o", " ", "s", "e", "t", " ", "u", "p", " ", "c", "r", "e",
       "d", "e", "n", "t", "i", "a", "l", "s", " ", "f", "o", "r", ":",
       " " >>

\* "."
FullStop ==
    << "." >>

\* "Oops, error! Can you give me more details?"
OopsText ==
    << "O", "o", "p", "s", ",", " ", "e", "r", "r", "o", "r", "!", " ",
       "C", "a", "n", " ", "y", "o", "u", " ", "g", "i", "v", "e", " ",
       "m", "e", " ", "m", "o", "r", "e", " ", "d", "e", "t", "a", "i",
       "l", "s", "?" >>

\* "Yes! Found "
YesFoundText ==
    << "Y", "e", "s", "!", " ", "F", "o", "u", "n", "d", " " >>

\* ". Top one: "
TopOneText ==
    << ".", " ", "T", "o", "p", " ", "o", "n", "e", ":", " " >>

\* "None found for "
NoneFoundText ==
    << "N", "o", "n", "e", " ", "f", "o", "u", "n", "d", " ", "f", "o",
       "r", " " >>

\* ". Try another term?"
TryAnotherText ==
    << ".", " ", "T", "r", "y", " ", "a", "n", "o", "t", "h", "e", "r",
       " ", "t", "e", "r", "m", "?" >>

\* "Search error. Try again?"
SearchErrorText ==
    << "S", "e", "a", "r", "c", "h", " ", "e", "r", "r", "o", "r", ".",
       " ", "T", "r", "y", " ", "a", "g", "a", "i", "n", "?" >>

\* "Cron"
CronText ==
    << "C", "r", "o", "n" >>

\* "Gmail"
GmailNodeText ==
    << "G", "m", "a", "i", "l" >>

\* "gmail"
GmailText ==
    << "g", "m", "a", "i", "l" >>

\* "slack"
SlackText ==
    << "s", "l", "a", "c", "k" >>

\* "Airtable"
AirtableText ==
    << "A", "i", "r", "t", "a", "b", "l", "e" >>

\* "Airtable Trigger"
AirtableTriggerText ==
    << "A", "i", "r", "t", "a", "b", "l", "e", " ", "T", "r", "i", "g",
       "g", "e", "r" >>

\* "airtable"
AirtableQuery ==
    << "a", "i", "r", "t", "a", "b", "l", "e" >>

\* "Read: and write Airtable records"
AirtableDescription ==
    << "R", "e", "a", "d", ":", " ", "a", "n", "d", " ", "w", "r", "i",
       "t", "e", " ", "A", "i", "r", "t", "a", "b", "l", "e", " ", "r",
       "e", "c", "o", "r", "d", "s" >>

\* ---------------------------------------------------------- WorkflowClient
\* f"Backend error: {error_text}" up to the body
BackendErrorPrefix ==
    << "B", "a", "c", "k", "e", "n", "d", " ", "e", "r", "r", "o", "r", ":",
       " " >>

\* f"Failed to connect to backend: {str(e)}" up to the exception
ConnectErrorPrefix ==
    << "F", "a", "i", "l", "e", "d", " ", "t", "o", " ", "c", "o", "n", "n",
       "e", "c", "t", " ", "t", "o", " ", "b", "a", "c", "k", "e", "n", "d",
       ":", " " >>

\* "Cannot connect to host localhost:3001"
CannotConnectText ==
    << "C", "a", "n", "n", "o", "t", " ", "c", "o", "n", "n", "e", "c", "t",
       " ", "t", "o", " ", "h", "o", "s", "t", " ", "l", "o", "c", "a", "l",
       "h", "o", "s", "t", ":", "3", "0", "0", "1" >>

\* "Attempt to decode JSON with unexpected mimetype: text/html"
NotJsonText ==
    << "A", "t", "t", "e", "m", "p", "t", " ", "t", "o", " ", "d", "e", "c",
       "o", "d", "e", " ", "J", "S", "O", "N", " ", "w", "i", "t", "h", " ",
       "u", "n", "e", "x", "p", "e", "c", "t", "e", "d", " ", "m", "i", "m",
       "e", "t", "y", "p", "e", ":", " ", "t", "e", "x", "t", "/", "h", "t",
       "m", "l" >>

\* "Response payload is not completed"
PayloadErrorText ==
    << "R", "e", "s", "p", "o", "n", "s", "e", " ", "p", "a", "y", "l", "o",
       "a", "d", " ", "i", "s", " ", "n", "o", "t", " ", "c", "o", "m", "p",
       "l", "e", "t", "e", "d" >>

\* "Internal Server Error"
InternalErrorText ==
    << "I", "n", "t", "e", "r", "n", "a", "l", " ", "S", "e", "r", "v", "e",
       "r", " ", "E", "r", "r", "o", "r" >>

\* "404 page not found"
NotFoundText ==
    << "4", "0", "4", " ", "p", "a", "g", "e", " ", "n", "o", "t", " ", "f",
       "o", "u", "n", "d" >>

\* {"error":"description is required"}
BadRequestText ==
    << "{", "\"", "e", "r", "r", "o", "r", "\"", ":", "\"", "d", "e", "s",
       "c", "r", "i", "p", "t", "i", "o", "n", " ", "i", "s", " ", "r", "e",
       "q", "u", "i", "r", "e", "d", "\"", "}" >>

\* "Could not build a workflow"
NoWorkflowText ==
    << "C", "o", "u", "l", "d", " ", "n", "o", "t", " ", "b", "u", "i", "l",
       "d", " ", "a", " ", "w", "o", "r", "k", "f", "l", "o", "w" >>

\* if response.status == 200
HTTP_OK == 200

\* Decimal digits of a natural number, as str() writes them.
Digit == << "0", "1", "2", "3", "4", "5", "6", "7", "8", "9" >>

RECURSIVE Str(_)
Str(n) ==
    IF n < 10 THEN << Digit[n + 1] >>
    ELSE Str(n \div 10) \o << Digit[(n % 10) + 1] >>

\* An optional argument is << >> (None) or << value >>.
NoneArg == << >>

\* if trigger: / if schedule: on an Optional[str]
TruthyStr(arg) == arg # NoneArg /\ arg[1] # ""

\* if services: on an Optional[list]
TruthyList(arg) == arg # NoneArg /\ arg[1] # << >>

\* config.BACKEND_API_URL
BaseUrl == "http://localhost:3001"

\* The payload built with "is not None" tests in place of truthiness.
generate_payload_non_null(description, trigger, services, schedule) ==
    LET p1 == [k \in {"description"} |-> description]
        p2 == IF trigger # NoneArg THEN Put(p1, "trigger", trigger[1]) ELSE p1
        p3 == IF services # NoneArg THEN Put(p2, "services", services[1]) ELSE p2
        p4 == IF schedule # NoneArg THEN Put(p3, "schedule", schedule[1]) ELSE p3
    IN p4

\* Payload of generate_workflow (lines 35-44): the keys it holds.
generate_payload(description, trigger, services, schedule) ==
    LET p1 == [k \in {"description"} |-> description]
        p2 == IF TruthyStr(trigger) THEN Put(p1, "trigger", trigger[1]) ELSE p1
        p3 == IF TruthyList(services) THEN Put(p2, "services", services[1]) ELSE p2
        p4 == IF TruthyStr(schedule) THEN Put(p3, "schedule", schedule[1]) ELSE p3
    IN p4

\* Payload of search_nodes (lines 81-84).
search_payload(query, limit) == [query |-> query, limit |-> limit]

\* What the backend does with a request. reached: a response arrived;
\* status: its status; readable: the body could be read; text: the body;
\* is_json, json: whether it decodes, and to what; failure: str(e) of the
\* exception raised when no response arrived, the body could not be read or
\* could not be decoded.
Answer(reached, status, readable, text, is_json, json, failure) ==
    [reached |-> reached, status |-> status, readable |-> readable,
     text |-> text, is_json |-> is_json, json |-> json, failure |-> failure]

NoJson == [k \in {} |-> 0]

\* 200 bodies of the backend: the workflow of the generation example, a
\* workflow without credential requirements, one with two requirements, one
\* whose requirement has no service key, a search with two hits (the second
\* without description), and a search that counts hits it does not list.
ExampleWorkflowJson ==
    [success |-> TRUE,
     data |-> [workflow |-> [id |-> "w1",
                             nodes |-> << [name |-> CronText],
                                          [name |-> GmailNodeText] >>],
               credentialRequirements |-> << [service |-> GmailText] >>]]

PlainWorkflowJson ==
    [success |-> TRUE,
     data |-> [workflow |-> [id |-> "w2", nodes |-> << [type |-> "cron"] >>]]]

TwoCredentialsJson ==
    [success |-> TRUE,
     data |-> [workflow |-> [id |-> "w3",
                             nodes |-> << [name |-> CronText],
                                          [name |-> GmailNodeText],
                                          [name |-> SlackText] >>],
               credentialRequirements |-> << [service |-> GmailText],
                                             [service |-> SlackText] >>]]

UnnamedCredentialJson ==
    [success |-> TRUE,
     data |-> [workflow |-> [id |-> "w4", nodes |-> << [name |-> GmailNodeText] >>],
               credentialRequirements |-> << [type |-> "gmailOAuth2"] >>]]

TwoHitsJson ==
    [success |-> TRUE,
     data |-> [nodes |-> << [name |-> AirtableText,
                             description |-> AirtableDescription],
                            [name |-> AirtableTriggerText] >>,
               count |-> 2]]

UnlistedHitsJson == [success |-> TRUE, data |-> [count |-> 2]]

\* A search answered with six hits, one more than the limit asked for.
ManyHitsJson ==
    [success |-> TRUE,
     data |-> [nodes |-> << [name |-> AirtableText,
                             description |-> AirtableDescription],
                            [name |-> AirtableTriggerText],
                            [name |-> GmailText],
                            [name |-> SlackText],
                            [name |-> CronText],
                            [name |-> GmailNodeText] >>,
               count |-> 6]]

Answers ==
    { Answer(FALSE, 0, FALSE, << >>, FALSE, NoJson, CannotConnectText),
      Answer(FALSE, 0, FALSE, << >>, FALSE, NoJson, << >>),
      Answer(TRUE, HTTP_OK, TRUE, << >>, TRUE,
             [success |-> TRUE, data |-> [nodes |-> << >>, count |-> 0]], << >>),
      Answer(TRUE, HTTP_OK, TRUE, << >>, TRUE,
             [success |-> FALSE, error |-> NoWorkflowText], << >>),
      Answer(TRUE, HTTP_OK, TRUE, << >>, TRUE, ExampleWorkflowJson, << >>),
      Answer(TRUE, HTTP_OK, TRUE, << >>, TRUE, PlainWorkflowJson, << >>),
      Answer(TRUE, HTTP_OK, TRUE, << >>, TRUE, TwoCredentialsJson, << >>),
      Answer(TRUE, HTTP_OK, TRUE, << >>, TRUE, UnnamedCredentialJson, << >>),
      Answer(TRUE, HTTP_OK, TRUE, << >>, TRUE, TwoHitsJson, << >>),
      Answer(TRUE, HTTP_OK, TRUE, << >>, TRUE, UnlistedHitsJson, << >>),
      Answer(TRUE, HTTP_OK, TRUE, << >>, TRUE, ManyHitsJson, << >>),
      Answer(TRUE, HTTP_OK, TRUE, InternalErrorText, FALSE, NoJson, NotJsonText),
      Answer(TRUE, 500, TRUE, InternalErrorText, FALSE, NoJson, << >>),
      Answer(TRUE, 404, TRUE, NotFoundText, FALSE, NoJson, << >>),
      Answer(TRUE, 503, TRUE, << >>, FALSE, NoJson, << >>),
      Answer(TRUE, 400, TRUE, BadRequestText, TRUE,
             [error |-> "description is required"], << >>),
      Answer(TRUE, 502, FALSE, << >>, FALSE, NoJson, PayloadErrorText) }

\* The try block without its except clause: the exception leaves the client.
FailedToConnect_reraised(failure) == [raised |-> TRUE, exception |-> failure]

\* except Exception as e (lines 58-62, 98-102)
FailedToConnect(failure) ==
    [success |-> FALSE, error |-> ConnectErrorPrefix \o failure]

\* The non-200 branch with the status in the message.
BackendError_with_status(status, error_text) ==
    [success |-> FALSE, error |-> BackendErrorPrefix \o Str(status) \o error_text]

\* The non-200 branch (lines 52-57, 92-97); the status takes no part.
BackendError(status, error_text) ==
    [success |-> FALSE, error |-> BackendErrorPrefix \o error_text]

\* The try block shared by generate_workflow and search_nodes (lines 46-62,
\* 86-102): the value returned for an answer of the backend.
ClientResult(answer) ==
    IF ~answer.reached THEN FailedToConnect(answer.failure)
    ELSE IF answer.status = HTTP_OK
         THEN IF answer.readable /\ answer.is_json
              THEN answer.json
              ELSE FailedToConnect(answer.failure)
         ELSE IF answer.readable
              THEN BackendError(answer.status, answer.text)
              ELSE FailedToConnect(answer.failure)

NoRequest == [op |-> "none"]

\* Arguments the handlers pass.
Descriptions == {"email me daily sales report"}
Triggers == {NoneArg, << "" >>, << "schedule" >>}
ServiceLists == {NoneArg, << << >> >>, << << "gmail" >> >>}
Schedules == {NoneArg, << "" >>, << "daily at 9 AM" >>}
Queries == {AirtableQuery, << >>}
Limits == {5, 10}

\* WorkflowClient.generate_workflow up to its POST.
ClientGenerateWorkflow(description, trigger, services, schedule) ==
    /\ wc_pc # "posted"
    /\ wc_pc' = "posted"
    /\ wc_calls' = wc_calls + 1
    /\ backend_posts' = backend_posts + 1
    /\ wc_request' =
          [op |-> "generate_workflow",
           url |-> << BaseUrl, "/api/pipecat/generate-workflow" >>,
           json |-> generate_payload(description, trigger, services, schedule),
           args |-> [description |-> description, trigger |-> trigger,
                     services |-> services, schedule |-> schedule]]
    /\ UNCHANGED << wc_answer, wc_result >>
    /\ UNCHANGED << sessionVars, routeVars, intentVars >>

\* WorkflowClient.search_nodes up to its POST.
ClientSearchNodes(query, limit) ==
    /\ wc_pc # "posted"
    /\ wc_pc' = "posted"
    /\ wc_calls' = wc_calls + 1
    /\ backend_posts' = backend_posts + 1
    /\ wc_request' =
          [op |-> "search_nodes",
           url |-> << BaseUrl, "/api/pipecat/search-nodes" >>,
           json |-> search_payload(query, limit),
           args |-> [query |-> query, limit |-> limit]]
    /\ UNCHANGED << wc_answer, wc_result >>
    /\ UNCHANGED << sessionVars, routeVars, intentVars >>

\* A client that sends the request again when no response arrived.
ClientReturns_resend(answer) ==
    /\ wc_pc = "posted"
    /\ IF answer.reached
       THEN /\ wc_pc' = "returned"
            /\ wc_answer' = answer
            /\ wc_result' = ClientResult(answer)
            /\ UNCHANGED backend_posts
       ELSE /\ backend_posts' = backend_posts + 1
            /\ UNCHANGED << wc_pc, wc_answer, wc_result >>
    /\ UNCHANGED << wc_request, wc_calls >>
    /\ UNCHANGED << sessionVars, routeVars, intentVars >>

\* The POST ends and the client returns.
ClientReturns(answer) ==
    /\ wc_pc = "posted"
    /\ wc_pc' = "returned"
    /\ wc_answer' = answer
    /\ wc_result' = ClientResult(answer)
    /\ UNCHANGED << wc_request, wc_calls, backend_posts >>
    /\ UNCHANGED << sessionVars, routeVars, intentVars >>

\* ----------------------------------- generate_workflow and search_nodes
\* No value was passed to a result callback yet.
NoResponse == [none |-> TRUE]

\* workflow.get("id") when the workflow has no id.
NoneId == "None"

\* credential_msg naming only the first requirement's service.
credential_msg_first_only(credential_reqs) ==
    IF credential_reqs = << >> THEN << >>
    ELSE CredentialsText \o credential_reqs[1].service \o FullStop

\* credential_msg (lines 421-424) for requirements that all have a service:
\* empty when there are none, else the sentence naming each service.
credential_msg(credential_reqs) ==
    IF credential_reqs = << >> THEN << >>
    ELSE LET services == [i \in 1..Len(credential_reqs) |->
                              credential_reqs[i].service]
         IN CredentialsText \o Join(services, CommaSpace) \o FullStop

\* len(workflow.get("nodes", [])) counted one too many.
node_count_of_off_by_one(workflow) == Len(Get(workflow, "nodes", << >>)) + 1

\* node_count = len(workflow.get("nodes", []))
node_count_of(workflow) == Len(Get(workflow, "nodes", << >>))

\* handle_generate_workflow from the client's result on (lines 384-447):
\* whether an exception leaves the handler, the send_workflow_to_backend tasks
\* it created, and the response it passes to result_callback. c.get("service")
\* is None for a requirement without that key, and ', '.join raises TypeError
\* on it, after the task was created.
generate_workflow_outcome(result, user_id) ==
    IF Get(result, "success", FALSE)
    THEN LET workflow_data == Get(result, "data", EmptyObject)
             workflow == Get(workflow_data, "workflow", EmptyObject)
             credential_reqs ==
                 Get(workflow_data, "credentialRequirements", << >>)
             nodes == Get(workflow, "nodes", << >>)
             node_count == node_count_of(workflow)
             node_names ==
                 [i \in 1..Len(nodes) |-> Get(nodes[i], "name", UnknownText)]
             relay == << [userId |-> user_id, workflow |-> workflow,
                          credentialRequirements |-> credential_reqs] >>
         IN IF \E i \in 1..Len(credential_reqs) :
                   "service" \notin DOMAIN credential_reqs[i]
            THEN [raised |-> TRUE, relay |-> relay, response |-> NoResponse]
            ELSE [raised |-> FALSE, relay |-> relay,
                  response |->
                     [workflow_generated |-> TRUE,
                      workflow_id |-> Get(workflow, "id", NoneId),
                      node_count |-> node_count,
                      nodes |-> Join(node_names, CommaSpace),
                      message |-> DoneCreatedText \o Str(node_count)
                                     \o NodesText
                                     \o credential_msg(credential_reqs)
                                     \o DeployText]]
    ELSE [raised |-> FALSE, relay |-> << >>,
          response |->
             [workflow_generated |-> FALSE,
              error |-> Get(result, "error", UnknownErrorText),
              message |-> OopsText]]

\* The empty branch of handle_search_nodes answering as if nodes were found.
search_empty_response_found(query) ==
    [found |-> TRUE, count |-> 0,
     message |-> NoneFoundText \o query \o TryAnotherText]

\* The else branch of "if count > 0" (lines 481-486).
search_empty_response(query) ==
    [found |-> FALSE, count |-> 0,
     message |-> NoneFoundText \o query \o TryAnotherText]

\* handle_search_nodes from the client's result on (lines 460-498).
\* node_list[0] raises IndexError when count > 0 and nodes is empty.
search_nodes_outcome(result, query) ==
    IF Get(result, "success", FALSE)
    THEN LET data == Get(result, "data", EmptyObject)
             nodes == Get(data, "nodes", << >>)
             count == Get(data, "count", 0)
             top == FirstFive(nodes)
             node_list ==
                 [i \in 1..Len(top) |->
                     Get(top[i], "name", UnknownText) \o ColonSpace
                         \o Get(top[i], "description", << >>)]
         IN IF count > 0
            THEN IF node_list = << >>
                 THEN [raised |-> TRUE, relay |-> << >>, response |-> NoResponse]
                 ELSE [raised |-> FALSE, relay |-> << >>,
                       response |->
                          [found |-> TRUE, count |-> count,
                           nodes |-> node_list,
                           message |-> YesFoundText \o Str(count)
                                          \o TopOneText
                                          \o BeforeColon(node_list[1])
                                          \o FullStop]]
            ELSE [raised |-> FALSE, relay |-> << >>,
                  response |-> search_empty_response(query)]
    ELSE [raised |-> FALSE, relay |-> << >>,
          response |->
             [found |-> FALSE,
              error |-> Get(result, "error", UnknownErrorText),
              message |-> SearchErrorText]]

\* handle_generate_workflow up to the POST of the client (lines 368-382).
handle_generate_workflow(room_name, description, trigger, services, schedule) ==
    /\ room_name \in RoomNames
    /\ bot[room_name] = "running"
    /\ tool_calls' = tool_calls + 1
    /\ ClientGenerateWorkflow(description, trigger, services, schedule)
    /\ UNCHANGED << tool_results, tool_response, tool_errors, relay_tasks,
                    relay_posts, relay_log >>
    /\ UNCHANGED transcriptVars

\* search_nodes is always called with limit=5.
SearchLimit == 5

\* handle_search_nodes up to the POST of the client (lines 450-458).
handle_search_nodes(room_name, query) ==
    /\ room_name \in RoomNames
    /\ bot[room_name] = "running"
    /\ tool_calls' = tool_calls + 1
    /\ ClientSearchNodes(query, SearchLimit)
    /\ UNCHANGED << tool_results, tool_response, tool_errors, relay_tasks,
                    relay_posts, relay_log >>
    /\ UNCHANGED transcriptVars

\* A handler that awaits send_workflow_to_backend() in place of creating a
\* task for it: with a relay to run, the handler has not ended yet.
ToolHandlerEnds_awaits_relay(outcome) ==
    /\ relay_tasks' = relay_tasks \o outcome.relay
    /\ IF outcome.relay # << >>
       THEN UNCHANGED << tool_results, tool_response, tool_errors >>
       ELSE IF outcome.raised
            THEN /\ tool_errors' = tool_errors + 1
                 /\ UNCHANGED << tool_results, tool_response >>
            ELSE /\ tool_results' = tool_results + 1
                 /\ tool_response' = outcome.response
                 /\ UNCHANGED tool_errors
    /\ UNCHANGED << tool_calls, relay_posts, relay_log >>
    /\ UNCHANGED transcriptVars

\* The end of a handler: await params.result_callback(response), unless an
\* exception left the handler before. The tasks the handler created with
\* asyncio.create_task are left to run on their own.
ToolHandlerEnds(outcome) ==
    /\ relay_tasks' = relay_tasks \o outcome.relay
    /\ IF outcome.raised
       THEN /\ tool_errors' = tool_errors + 1
            /\ UNCHANGED << tool_results, tool_response >>
       ELSE /\ tool_results' = tool_results + 1
            /\ tool_response' = outcome.response
            /\ UNCHANGED tool_errors
    /\ UNCHANGED << tool_calls, relay_posts, relay_log >>
    /\ UNCHANGED transcriptVars

\* The client returns to handle_generate_workflow, which runs to its end.
GenerateWorkflowReturns(room_name, answer) ==
    /\ room_name \in RoomNames
    /\ wc_request.op = "generate_workflow"
    /\ ClientReturns(answer)
    /\ ToolHandlerEnds(generate_workflow_outcome(ClientResult(answer),
                                                 bot_user[room_name]))

\* The client returns to handle_search_nodes, which runs to its end.
SearchNodesReturns(room_name, answer) ==
    /\ room_name \in RoomNames
    /\ wc_request.op = "search_nodes"
    /\ ClientReturns(answer)
    /\ ToolHandlerEnds(search_nodes_outcome(ClientResult(answer),
                                            wc_request.args.query))

\* What becomes of the POST of a send_workflow_to_backend task: it is
\* answered, the connection fails, or the 5 seconds of its timeout pass.
RelayOutcomes == {"sent", "refused", "timeout"}

\* The line send_workflow_to_backend prints (lines 415-418); the exception
\* of a failed or timed-out POST is caught and goes no further.
RelayLog(outcome) ==
    IF outcome = "sent" THEN "Sent workflow to backend for broadcast"
    ELSE "Failed to send via backend"

\* A send_workflow_to_backend task runs (lines 403-418): one POST to
\* /api/pipecat/workflow-generated; its failure is only printed.
send_workflow_to_backend(i, outcome) ==
    /\ i \in 1..Len(relay_tasks)
    /\ relay_tasks' = SubSeq(relay_tasks, 1, i - 1)
                         \o SubSeq(relay_tasks, i + 1, Len(relay_tasks))
    /\ relay_posts' = relay_posts + 1
    /\ relay_log' = RelayLog(outcome)
    /\ UNCHANGED << tool_calls, tool_results, tool_response, tool_errors >>
    /\ UNCHANGED << sessionVars, routeVars, intentVars, clientVars,
                    transcriptVars >>

\* ------------------------------------------------------- live transcripts
\* The text of line 581 that marks the system prompt.
SystemPromptMarker ==
    << "Y", "o", "u", " ", "a", "r", "e", " ", "a", " ", "f", "a", "s",
       "t", ",", " ", "e", "n", "e", "r", "g", "e", "t", "i", "c", " ",
       "w", "o", "r", "k", "f", "l", "o", "w", " ", "a", "u", "t", "o",
       "m", "a", "t", "i", "o", "n", " ", "s", "p", "e", "c", "i", "a",
       "l", "i", "s", "t" >>

\* "sync my leads"
HelloText ==
    << "s", "y", "n", "c", " ", "m", "y", " ", "l", "e", "a", "d", "s" >>

\* "Got it! "
ReplyText ==
    << "G", "o", "t", " ", "i", "t", "!", " " >>

\* "What CRM?"
WhatCrmText ==
    << "W", "h", "a", "t", " ", "C", "R", "M", "?" >>

\* "Be brief."
BeBriefText ==
    << "B", "e", " ", "b", "r", "i", "e", "f", "." >>

\* "IN_PROGRESS"
InProgressText ==
    << "I", "N", "_", "P", "R", "O", "G", "R", "E", "S", "S" >>

\* message.get("content") as a str, as a list of parts, or absent (None).
StrContent(text) == [kind |-> "str", text |-> text]

ListContent(parts) == [kind |-> "list", parts |-> parts]

NoContent == [kind |-> "none"]

\* A message that is an object of the LLM library in place of a dict: it has
\* a role and text parts as attributes, and no get method.
ContentObject ==
    [object |-> "Content", role |-> "user",
     parts |-> << [text |-> HelloText] >>]

\* Messages given to context.add_message: spoken turns of the user and the
\* assistant, an assistant turn in text parts, one with only a non-text part,
\* an empty user turn, a user turn quoting the marked prompt, the assistant's
\* tool-call message (no content key), the tool's progress message, a system
\* message, a message without role, and a message object.
Messages ==
    { [role |-> "user", content |-> StrContent(HelloText)],
      [role |-> "assistant", content |-> StrContent(WhatCrmText)],
      [role |-> "assistant",
       content |-> ListContent(<< [type |-> "text", text |-> ReplyText],
                                  [type |-> "image"],
                                  [text |-> WhatCrmText] >>)],
      [role |-> "assistant", content |-> ListContent(<< [type |-> "image"] >>)],
      [role |-> "user", content |-> StrContent(<< >>)],
      [role |-> "user", content |-> StrContent(SystemPromptMarker \o FullStop)],
      [role |-> "assistant", tool_calls |-> << "search_nodes" >>],
      [role |-> "tool", content |-> StrContent(InProgressText)],
      [role |-> "system", content |-> StrContent(BeBriefText)],
      [content |-> StrContent(HelloText)],
      ContentObject }

RECURSIVE PartsText(_)
\* The loop of lines 573-577: the texts of the parts that have one, in order.
PartsText(parts) ==
    IF parts = << >> THEN << >>
    ELSE (IF "text" \in DOMAIN Head(parts) THEN Head(parts).text ELSE << >>)
             \o PartsText(Tail(parts))

\* content as lines 569-577 extract it from the message.
MessageText(message) ==
    LET c == Get(message, "content", NoContent) IN
    IF c.kind = "str" THEN c.text
    ELSE IF c.kind = "list" THEN PartsText(c.parts)
    ELSE << >>

\* message.get("role", "unknown")
MessageRole(message) == Get(message, "role", "unknown")

\* The arguments of the tasks created with every message except system ones,
\* whatever its content.
live_transcript_args_unfiltered(message) ==
    IF MessageRole(message) # "system"
    THEN << [role |-> MessageRole(message), content |-> MessageText(message)] >>
    ELSE << >>

\* The arguments of the send_transcript_live tasks that
\* add_message_with_live_transcript creates for a message (lines 566-583):
\* one, unless the role is system, the text is empty or holds the marker.
live_transcript_args(message) ==
    LET role == MessageRole(message)
        content == MessageText(message)
    IN IF /\ role # "system"
          /\ content # << >>
          /\ ~Contains(SystemPromptMarker, content)
       THEN << [role |-> role, content |-> content] >>
       ELSE << >>

\* message.get(...) of line 567 raises AttributeError on a message that is
\* not a dict.
ExtractionRaises(message) == "object" \in DOMAIN message

\* The try block without its except clause: the exception of the extraction
\* leaves add_message.
extract_and_send_unguarded(message) ==
    IF ExtractionRaises(message)
    THEN [created |-> << >>, raised |-> TRUE]
    ELSE [created |-> live_transcript_args(message), raised |-> FALSE]

\* The try block of lines 566-585 ("Extract and send transcript"): the
\* arguments of the tasks it creates, and whether an exception leaves it. An
\* exception of the extraction is caught and printed.
extract_and_send(message) ==
    IF ExtractionRaises(message)
    THEN [created |-> << >>, raised |-> FALSE]
    ELSE [created |-> live_transcript_args(message), raised |-> FALSE]

\* No request was built by the task yet.
NoPayload == [none |-> TRUE]

\* What original_add_message returns (line 563); it is code of the LLM
\* library.
AddResults == {"None", "added"}

\* context.add_message(message) in the session of room_name: the original
\* method appends and returns result, then the tasks are created, then result
\* is returned.
add_message_with_live_transcript(room_name, message, result) ==
    /\ room_name \in RoomNames
    /\ bot[room_name] = "running"
    /\ context_messages' = Append(context_messages, message)
    /\ LET block == extract_and_send(message) IN
       /\ transcript_tasks' = transcript_tasks \o
              [i \in 1..Len(block.created) |->
                  [room_name |-> room_name, role |-> block.created[i].role,
                   content |-> block.created[i].content, state |-> "created",
                   json |-> NoPayload]]
       /\ IF block.raised
          THEN /\ add_errors' = add_errors + 1
               /\ UNCHANGED add_result
          ELSE /\ add_result' = result
               /\ UNCHANGED add_errors
    /\ UNCHANGED << sessionVars, routeVars, intentVars, clientVars, toolVars >>

\* datetime.datetime.now().isoformat() at the moments the tasks run.
Timestamps == {"2025-01-01T09:00:00", "2025-01-01T09:00:02"}

\* A send_transcript_live task runs (lines 535-554): it posts its json to
\* /api/pipecat/transcript; ok tells whether the POST returned or raised, and
\* a failure is only printed.
send_transcript_live(i, now, ok) ==
    /\ i \in 1..Len(transcript_tasks)
    /\ transcript_tasks[i].state = "created"
    /\ LET t == transcript_tasks[i] IN
       transcript_tasks' =
           [transcript_tasks EXCEPT
               ![i].state = IF ok THEN "sent" ELSE "failed",
               ![i].json = [userId |-> bot_user[t.room_name],
                            role |-> t.role,
                            content |-> t.content,
                            timestamp |-> now,
                            sessionId |-> t.room_name]]
    /\ UNCHANGED << context_messages, add_result, add_errors >>
    /\ UNCHANGED << sessionVars, routeVars, intentVars, clientVars, toolVars >>

\* ---------------------------------------------------------- specification

\* No tool call was made and no message was added yet.
HandlersIdle ==
    /\ tool_calls = 0
    /\ tool_results = 0
    /\ tool_response = NoResponse
    /\ tool_errors = 0
    /\ relay_tasks = << >>
    /\ relay_posts = 0
    /\ relay_log = "none"
    /\ context_messages = << >>
    /\ transcript_tasks = << >>
    /\ add_result = "none"
    /\ add_errors = 0

Init ==
    /\ daily_rooms = {}
    /\ daily_tokens = {}
    /\ starting = {}
    /\ start_calls = 0
    /\ start_responses = {}
    /\ start_errors = 0
    /\ bot = [r \in RoomNames |-> "none"]
    /\ bot_user = [r \in RoomNames |-> NoUser]
    /\ active_sessions = << >>
    /\ cancel_requested = [r \in RoomNames |-> FALSE]
    /\ ending = [r \in AnyRoomName |-> 0]
    /\ end_calls = 0
    /\ end_log = << >>
    /\ current_agent_ref = << >>
    /\ notifications = << >>
    /\ route_calls = 0
    /\ route_response = NoResponse
    /\ tool_exceptions = 0
    /\ utterance = << >>
    /\ intent_scores = NoScores
    /\ intent = NotAnalyzed
    /\ wc_pc = "idle"
    /\ wc_calls = 0
    /\ wc_request = NoRequest
    /\ wc_answer = NoRequest
    /\ wc_result = NoRequest
    /\ backend_posts = 0
    /\ HandlersIdle

Next ==
    \/ \E u \in UserIds, ok \in BOOLEAN : StartSessionCreateRoom(u, ok)
    \/ \E s \in starting, ok \in BOOLEAN : StartSessionCreateToken(s, ok)
    \/ \E r \in RoomNames : RunBotSetupFails(r)
    \/ \E r \in RoomNames : RunBotRegisters(r)
    \/ \E r \in RoomNames, how \in ExitKinds : PipelineEnds(r, how)
    \/ \E r \in daily_rooms \cup {NeverARoom} : EndSessionCall(r)
    \/ \E r \in AnyRoomName : EndSessionReturn(r)

Spec == Init /\ [][Next]_vars

\* The cancelled unit is scheduled: the event loop resumes a run_bot unit whose
\* pipeline task was cancelled.
FairSpec == Spec /\ \A r \in RoomNames : WF_vars(PipelineEnds(r, "cancelled"))

\* ------------------------------------------- specification of the routing
\* One session, started by "u1", with its pipeline running (a state Spec
\* reaches); the model runtime calls the tool.
RouteRooms == {NewRoomName({})}

RouteUser(r) == "u1"

InitRoute ==
    /\ daily_rooms = RouteRooms
    /\ daily_tokens = {TokenProperties(r) : r \in RouteRooms}
    /\ starting = {}
    /\ start_calls = Cardinality(RouteRooms)
    /\ start_responses =
           {[room_name |-> r, token |-> TokenProperties(r)] : r \in RouteRooms}
    /\ start_errors = 0
    /\ bot = [r \in RoomNames |-> IF r \in RouteRooms THEN "running" ELSE "none"]
    /\ bot_user = [r \in RoomNames |-> IF r \in RouteRooms THEN RouteUser(r) ELSE NoUser]
    /\ active_sessions =
           [r \in RouteRooms |-> [task |-> TaskOf(r), user_id |-> RouteUser(r)]]
    /\ cancel_requested = [r \in RoomNames |-> FALSE]
    /\ ending = [r \in AnyRoomName |-> 0]
    /\ end_calls = 0
    /\ end_log = << >>
    /\ current_agent_ref = [r \in RouteRooms |-> InitialAgent]
    /\ notifications = [r \in RouteRooms |-> << >>]
    /\ route_calls = 0
    /\ route_response = NoResponse
    /\ tool_exceptions = 0
    /\ utterance = << >>
    /\ intent_scores = NoScores
    /\ intent = NotAnalyzed
    /\ wc_pc = "idle"
    /\ wc_calls = 0
    /\ wc_request = NoRequest
    /\ wc_answer = NoRequest
    /\ wc_result = NoRequest
    /\ backend_posts = 0
    /\ HandlersIdle

NextRoute ==
    /\ route_calls < MaxRoutes
    /\ \E r \in RouteRooms, agent \in AgentArgs, client \in Clients :
           handle_route_to_agent(r, agent, client)

SpecRoute == InitRoute /\ [][NextRoute]_vars

\* ------------------------------------------ specification of two sessions
\* Two sessions whose start_session calls have returned, one started by "u1"
\* and one without user id (a state Spec reaches); their run_bot units
\* register, are routed, are ended and clean up in any interleaving.
PairRooms == {NewRoomName({}), NewRoomName({NewRoomName({})})}

PairUser(r) == IF r = NewRoomName({}) THEN "u1" ELSE NoUser

InitPair ==
    /\ daily_rooms = PairRooms
    /\ daily_tokens = {TokenProperties(r) : r \in PairRooms}
    /\ starting = {}
    /\ start_calls = Cardinality(PairRooms)
    /\ start_responses =
           {[room_name |-> r, token |-> TokenProperties(r)] : r \in PairRooms}
    /\ start_errors = 0
    /\ bot = LaunchBot(LaunchBot([r \in RoomNames |-> "none"],
                                 NewRoomName({})),
                       NewRoomName({NewRoomName({})}))
    /\ bot_user = [r \in RoomNames |-> IF r \in PairRooms THEN PairUser(r) ELSE NoUser]
    /\ active_sessions = << >>
    /\ cancel_requested = [r \in RoomNames |-> FALSE]
    /\ ending = [r \in AnyRoomName |-> 0]
    /\ end_calls = 0
    /\ end_log = << >>
    /\ current_agent_ref = << >>
    /\ notifications = << >>
    /\ route_calls = 0
    /\ route_response = NoResponse
    /\ tool_exceptions = 0
    /\ utterance = << >>
    /\ intent_scores = NoScores
    /\ intent = NotAnalyzed
    /\ wc_pc = "idle"
    /\ wc_calls = 0
    /\ wc_request = NoRequest
    /\ wc_answer = NoRequest
    /\ wc_result = NoRequest
    /\ backend_posts = 0
    /\ HandlersIdle

NextPair ==
    \/ \E r \in PairRooms : RunBotSetupFails(r)
    \/ \E r \in PairRooms : RunBotRegisters(r)
    \/ \E r \in PairRooms, how \in ExitKinds : PipelineEnds(r, how)
    \/ \E r \in PairRooms : EndSessionCall(r)
    \/ \E r \in PairRooms : EndSessionReturn(r)
    \/ /\ route_calls < MaxRoutes
       /\ \E r \in PairRooms, agent \in {"sales", "support"} :
             handle_route_to_agent(r, agent, "sent")

SpecPair == InitPair /\ [][NextPair]_vars

\* -------------------------------------------- specification of the classifier
\* No session exists; analyze_intent is applied once to each utterance.
InitIntent ==
    /\ daily_rooms = {}
    /\ daily_tokens = {}
    /\ starting = {}
    /\ start_calls = 0
    /\ start_responses = {}
    /\ start_errors = 0
    /\ bot = [r \in RoomNames |-> "none"]
    /\ bot_user = [r \in RoomNames |-> NoUser]
    /\ active_sessions = << >>
    /\ cancel_requested = [r \in RoomNames |-> FALSE]
    /\ ending = [r \in AnyRoomName |-> 0]
    /\ end_calls = 0
    /\ end_log = << >>
    /\ current_agent_ref = << >>
    /\ notifications = << >>
    /\ route_calls = 0
    /\ route_response = NoResponse
    /\ tool_exceptions = 0
    /\ utterance \in Utterances
    /\ intent_scores = NoScores
    /\ intent = NotAnalyzed
    /\ wc_pc = "idle"
    /\ wc_calls = 0
    /\ wc_request = NoRequest
    /\ wc_answer = NoRequest
    /\ wc_result = NoRequest
    /\ backend_posts = 0
    /\ HandlersIdle

NextIntent == AnalyzeIntent

SpecIntent == InitIntent /\ [][NextIntent]_vars

\* ------------------------------------------------ specification of the client
\* No session exists; the client is called and the backend answers.
InitClient ==
    /\ daily_rooms = {}
    /\ daily_tokens = {}
    /\ starting = {}
    /\ start_calls = 0
    /\ start_responses = {}
    /\ start_errors = 0
    /\ bot = [r \in RoomNames |-> "none"]
    /\ bot_user = [r \in RoomNames |-> NoUser]
    /\ active_sessions = << >>
    /\ cancel_requested = [r \in RoomNames |-> FALSE]
    /\ ending = [r \in AnyRoomName |-> 0]
    /\ end_calls = 0
    /\ end_log = << >>
    /\ current_agent_ref = << >>
    /\ notifications = << >>
    /\ route_calls = 0
    /\ route_response = NoResponse
    /\ tool_exceptions = 0
    /\ utterance = << >>
    /\ intent_scores = NoScores
    /\ intent = NotAnalyzed
    /\ wc_pc = "idle"
    /\ wc_calls = 0
    /\ wc_request = NoRequest
    /\ wc_answer = NoRequest
    /\ wc_result = NoRequest
    /\ backend_posts = 0
    /\ HandlersIdle

NextClient ==
    \/ /\ wc_calls < MaxCalls
       /\ \E d \in Descriptions, t \in Triggers, sv \in ServiceLists,
             sc \in Schedules : ClientGenerateWorkflow(d, t, sv, sc)
       /\ UNCHANGED << toolVars, transcriptVars >>
    \/ /\ wc_calls < MaxCalls
       /\ \E q \in Queries, l \in Limits : ClientSearchNodes(q, l)
       /\ UNCHANGED << toolVars, transcriptVars >>
    \/ /\ \E a \in Answers : ClientReturns(a)
       /\ UNCHANGED << toolVars, transcriptVars >>

SpecClient == InitClient /\ [][NextClient]_vars

\* -------------------------------------- specification of the tool handlers
\* One session with its pipeline running; the model runtime calls
\* generate_workflow and search_nodes, the backend answers, and the relay
\* tasks run.
InitTools == InitRoute

NextTools ==
    \/ /\ wc_calls < MaxCalls
       /\ \E r \in RouteRooms, d \in Descriptions, t \in Triggers,
             sv \in ServiceLists, sc \in Schedules :
             handle_generate_workflow(r, d, t, sv, sc)
    \/ /\ wc_calls < MaxCalls
       /\ \E r \in RouteRooms, q \in Queries : handle_search_nodes(r, q)
    \/ \E r \in RouteRooms, a \in Answers : GenerateWorkflowReturns(r, a)
    \/ \E r \in RouteRooms, a \in Answers : SearchNodesReturns(r, a)
    \/ \E i \in 1..Len(relay_tasks), o \in RelayOutcomes :
          send_workflow_to_backend(i, o)

SpecTools == InitTools /\ [][NextTools]_vars

\* ------------------------------------ specification of the live transcripts
\* One session with its pipeline running; messages are added to its context
\* and the transcript tasks run.
InitTranscript == InitRoute

NextTranscript ==
    \/ /\ Len(context_messages) < MaxMessages
       /\ \E r \in RouteRooms, m \in Messages, res \in AddResults :
             add_message_with_live_transcript(r, m, res)
    \/ \E i \in 1..Len(transcript_tasks), now \in Timestamps, ok \in BOOLEAN :
          send_transcript_live(i, now, ok)

SpecTranscript == InitTranscript /\ [][NextTranscript]_vars

\* ----------------------------------------------------------------- claims
Last(seq) == seq[Len(seq)]

Registered(r) == r \in DOMAIN active_sessions

NotFoundAnswer(r) ==
    [room_name |-> r, success |-> TRUE,
     message |-> "Session not found (already ended)"]

\* C1: once a run_bot unit has terminated (normal completion, cancellation,
\* internal error, or an error before it registered), the registry has no
\* entry for its room name.
C1_TerminatedUnitHasNoEntry ==
    \A r \in RoomNames : bot[r] \in {"failed", "done"} => ~Registered(r)

\* One unit ended after it was cancelled, another failed before registering.
C1_Witness ==
    \E r, q \in RoomNames :
        /\ bot[r] = "done" /\ cancel_requested[TaskOf(r)]
        /\ bot[q] = "failed"
        /\ ~Registered(r) /\ ~Registered(q)

\* C2: end_session for a room name that is no key of the registry answers
\* success, cancels no task and leaves the registry unchanged; a second such
\* call right after the first gives the same answer.
C2_EndUnknownSessionSucceeds ==
    [][\A r \in AnyRoomName :
          (EndSessionCall(r) /\ ~Registered(r)) =>
              /\ Last(end_log').room_name = r
              /\ Last(end_log').success = TRUE
              /\ active_sessions' = active_sessions
              /\ cancel_requested' = cancel_requested
              /\ ending' = ending
              /\ (end_log # << >> /\ Last(end_log).room_name = r
                    /\ Last(end_log).message = NotFoundAnswer(r).message)
                 => Last(end_log') = Last(end_log)]_vars

\* end_session was called twice in a row for a room whose unit had ended.
C2_Witness ==
    \E r \in RoomNames :
        /\ bot[r] = "done"
        /\ end_log = << NotFoundAnswer(r), NotFoundAnswer(r) >>

\* C3: end_session for a registered room name cancels the owning pipeline
\* task, and under fair scheduling of the cancelled unit the registry
\* eventually holds no entry for that room name.
C3_EndSessionDestroysSession ==
    /\ [][\A r \in AnyRoomName :
             (EndSessionCall(r) /\ Registered(r)) =>
                 cancel_requested'[active_sessions[r].task]]_vars
    /\ \A r \in RoomNames :
          (Registered(r) /\ cancel_requested[TaskOf(r)]) ~> ~Registered(r)

\* end_session answered "Session ended" for a room whose cancelled unit ended.
C3_Witness ==
    \E r \in RoomNames :
        /\ bot[r] = "done" /\ cancel_requested[TaskOf(r)] /\ ~Registered(r)
        /\ end_log # << >>
        /\ Last(end_log) = [room_name |-> r] @@ EndSessionAnswer(TRUE)

Specialists == {"sales", "support", "operations", "technical"}

\* C4: a route call naming the session's current label is a no-op: the label
\* is unchanged, the switch reports no change (routed is false), and no
\* agent_switch notification is built.
C4_RouteToCurrentIsNoOp ==
    [][\A r \in RouteRooms, c \in Clients :
          handle_route_to_agent(r, current_agent_ref[r], c) =>
              /\ current_agent_ref' = current_agent_ref
              /\ notifications' = notifications
              /\ route_response'.room_name = r
              /\ route_response'.response.routed = FALSE]_vars

\* A session was routed to a specialist and then routed to it again.
C4_Witness ==
    \E r \in RouteRooms :
        /\ current_agent_ref[r] \in Specialists
        /\ route_calls >= 2
        /\ Len(notifications[r]) = 1
        /\ route_response =
              [room_name |-> r,
               response |-> [routed |-> FALSE,
                             error |-> << "Could not route to ",
                                          current_agent_ref[r] >>]]

\* The acknowledgment spoken for each specialist.
Acknowledgment ==
    [a \in Specialists |->
        CASE a = "sales" -> "Got it! What CRM?"
          [] a = "support" -> "Perfect! What ticketing system?"
          [] a = "operations" -> "Nice! What data sources?"
          [] a = "technical" -> "Cool! What services?"]

\* C5: a route call naming one of the four specialists, other than the
\* current label, makes it the current label and returns routed = true with
\* that agent and its canned acknowledgment.
C5_RouteSwitchesLabel ==
    [][\A r \in RouteRooms, a \in Specialists, c \in Clients :
          (handle_route_to_agent(r, a, c) /\ a # current_agent_ref[r]) =>
              /\ current_agent_ref'[r] = a
              /\ route_response' =
                    [room_name |-> r,
                     response |-> [routed |-> TRUE, agent |-> a,
                                   message |-> Acknowledgment[a]]]]_vars

\* A session was switched from one specialist to another.
C5_Witness ==
    \E r \in RouteRooms :
        /\ Len(notifications[r]) >= 2
        /\ Last(notifications[r]).previous_agent \in Specialists
        /\ current_agent_ref[r] = Last(notifications[r]).agent
        /\ route_response.room_name = r
        /\ route_response.response.routed
        /\ route_response.response.agent = current_agent_ref[r]

FailingClients == {"no_client", "no_method", "raises"}

\* C6: when the agent_switch notification cannot be delivered (no client, no
\* send operation, or the send raises), the route handler still completes:
\* the label stays switched, routed = true is returned, no exception leaves it.
C6_NotificationFailureIsSwallowed ==
    [][\A r \in RouteRooms, a \in Specialists, c \in FailingClients :
          (handle_route_to_agent(r, a, c) /\ a # current_agent_ref[r]) =>
              /\ current_agent_ref'[r] = a
              /\ route_response'.room_name = r
              /\ route_response'.response.routed = TRUE
              /\ route_response'.response.agent = a
              /\ tool_exceptions' = tool_exceptions]_vars

\* Each way of failing to deliver happened in a session that then answered
\* routed = true.
C6_Witness ==
    \E r \in RouteRooms :
        /\ Len(notifications[r]) = 3
        /\ {notifications[r][i].log : i \in 1..3} =
              {"No Daily client available for notification",
               "Daily client doesn't support sendAppMessage",
               "Failed to send notification"}
        /\ route_response.room_name = r
        /\ route_response.response.routed
        /\ current_agent_ref[r] = Last(notifications[r]).agent
        /\ tool_exceptions = 0
    /\ utterance = << >>
    /\ intent_scores = NoScores
    /\ intent = NotAnalyzed
    /\ wc_pc = "idle"
    /\ wc_calls = 0
    /\ wc_request = NoRequest
    /\ wc_answer = NoRequest
    /\ wc_result = NoRequest
    /\ backend_posts = 0

\* A letter of the text matches a keyword letter whatever its case.
SameLetter(c, k) == c = k \/ (c \in DOMAIN LowerCase /\ LowerCase[c] = k)

\* The keyword occurs in the text at some offset, compared letter by letter.
OccursIn(kw, text) ==
    \E i \in 1..Len(text) :
        /\ i + Len(kw) - 1 <= Len(text)
        /\ \A j \in 1..Len(kw) : SameLetter(text[i + j - 1], kw[j])

KeywordCount(keywords, text) ==
    Cardinality({i \in 1..Len(keywords) : OccursIn(keywords[i], text)})

\* Per domain, the number of its keywords occurring in the text.
Counts(text) ==
    [sales |-> KeywordCount(sales_keywords, text),
     support |-> KeywordCount(support_keywords, text),
     operations |-> KeywordCount(ops_keywords, text),
     technical |-> KeywordCount(tech_keywords, text)]

Analyzed == intent # NotAnalyzed

\* C7: for an utterance holding no keyword of any of the four domains (as a
\* case-insensitive substring), analyze_intent returns no match.
C7_NoKeywordNoMatch ==
    (Analyzed /\ \A d \in Specialists : Counts(utterance)[d] = 0)
        => intent = NoIntent

\* A non-empty utterance without keywords was classified.
C7_Witness ==
    /\ Analyzed
    /\ Len(utterance) > 0
    /\ \A d \in Specialists : Counts(utterance)[d] = 0
    /\ intent = NoIntent

\* C8: when exactly one domain's keyword count is the unique maximum,
\* analyze_intent returns that domain.
C8_UniqueMaximumWins ==
    \A d \in Specialists :
        (Analyzed /\ \A e \in Specialists \ {d} :
                         Counts(utterance)[d] > Counts(utterance)[e])
            => intent = d

\* An utterance where sales matched once and operations twice was classified
\* as operations.
C8_Witness ==
    /\ Analyzed
    /\ Counts(utterance).sales = 1
    /\ Counts(utterance).operations = 2
    /\ Counts(utterance).technical = 1
    /\ intent = "operations"

\* C9 as stated: for "I need to sync leads into our CRM" the classifier
\* scores sales 2 and every other domain 0, and returns sales.
C9_ExampleAsStated ==
    (Analyzed /\ utterance = ExampleUtterance) =>
        /\ intent_scores = [sales |-> 2, support |-> 0, operations |-> 0,
                            technical |-> 0]
        /\ intent = "sales"

\* C9 amended: for "I need to sync leads into our CRM" the classifier scores
\* sales 2 (crm, lead), operations 1 (sync), support 0 and technical 0, and
\* returns sales.
C9_ExampleScores ==
    (Analyzed /\ utterance = ExampleUtterance) =>
        /\ intent_scores = [sales |-> 2, support |-> 0, operations |-> 1,
                            technical |-> 0]
        /\ intent = "sales"

\* The example utterance was classified.
C9_Witness ==
    /\ Analyzed
    /\ utterance = ExampleUtterance
    /\ intent = "sales"

\* The latest client call returned after the backend answered with a status
\* other than 200 and a readable body.
AnsweredNon200 ==
    /\ wc_pc = "returned"
    /\ wc_answer.reached
    /\ wc_answer.status # HTTP_OK
    /\ wc_answer.readable

ConnectWord == << "c", "o", "n", "n", "e", "c", "t" >>

\* The latest client call ended on an exception inside its try block: no
\* response arrived, the body could not be read, or a 200 body did not decode.
TransportFailed ==
    /\ wc_pc = "returned"
    /\ \/ ~wc_answer.reached
       \/ ~wc_answer.readable
       \/ wc_answer.status = HTTP_OK /\ ~wc_answer.is_json

\* C11: generate and search never raise: when no response arrives, or any
\* exception occurs while the response is read, the call returns
\* {success: false, error} and the error text contains "connect".
C11_TransportFailureIsReturned ==
    TransportFailed =>
        /\ DOMAIN wc_result = {"success", "error"}
        /\ wc_result.success = FALSE
        /\ Contains(ConnectWord, wc_result.error)

\* A generate call returned the connect error of an exception whose own text
\* is empty.
C11_Witness ==
    /\ TransportFailed
    /\ wc_request.op = "generate_workflow"
    /\ ~wc_answer.reached
    /\ wc_answer.failure = << >>
    /\ wc_result = [success |-> FALSE, error |-> ConnectErrorPrefix]

\* The generate request at hand.
GenerateRequested == wc_request.op = "generate_workflow"

\* The optional arguments of generate and their payload keys.
OptionalArgs == {"trigger", "services", "schedule"}

\* An optional argument was supplied with a non-null value.
Supplied(arg) == arg # NoneArg

\* The empty value of each optional argument's type.
EmptyValue == [trigger |-> "", services |-> << >>, schedule |-> ""]

\* An optional argument was supplied with a value that is neither null nor
\* the empty value of its type.
SuppliedNonEmpty(k, arg) == arg # NoneArg /\ arg[1] # EmptyValue[k]

\* C12 as stated: the body of a generate request contains description, and
\* contains trigger, services and schedule exactly when the argument was
\* supplied non-null (an empty list or string counting as supplied).
C12_NonNullFieldsSent ==
    GenerateRequested =>
        /\ "description" \in DOMAIN wc_request.json
        /\ \A k \in OptionalArgs :
              k \in DOMAIN wc_request.json <=> Supplied(wc_request.args[k])

\* C12 amended: the body of a generate request contains description, and
\* contains trigger, services and schedule, with the argument's value, exactly
\* when the argument was supplied with a non-null, non-empty value; an empty
\* string or empty list is left out like a null.
C12_NonEmptyFieldsSent ==
    GenerateRequested =>
        /\ DOMAIN wc_request.json \subseteq OptionalArgs \cup {"description"}
        /\ wc_request.json.description = wc_request.args.description
        /\ \A k \in OptionalArgs :
              /\ k \in DOMAIN wc_request.json
                    <=> SuppliedNonEmpty(k, wc_request.args[k])
              /\ k \in DOMAIN wc_request.json
                    => wc_request.json[k] = wc_request.args[k][1]

\* A generate request was sent with an empty trigger, an empty service list
\* and a schedule: only description and schedule are in its body.
C12_Witness ==
    /\ GenerateRequested
    /\ wc_request.args.trigger = << "" >>
    /\ wc_request.args.services = << << >> >>
    /\ wc_request.args.schedule = << "daily at 9 AM" >>
    /\ DOMAIN wc_request.json = {"description", "schedule"}

\* " nodes"
NodesWord ==
    << " ", "n", "o", "d", "e", "s" >>

\* "credentials"
CredentialsWord ==
    << "c", "r", "e", "d", "e", "n", "t", "i", "a", "l", "s" >>

\* "Try another term"
TryAnotherWords ==
    << "T", "r", "y", " ", "a", "n", "o", "t", "h", "e", "r", " ", "t",
       "e", "r", "m" >>

\* The latest tool call was generate_workflow and the client's result for it
\* is successful.
GenerateSucceeded ==
    /\ wc_pc = "returned"
    /\ wc_request.op = "generate_workflow"
    /\ Get(wc_result, "success", FALSE)

\* The workflow and the credential requirements of the client's result.
ReturnedWorkflow ==
    Get(Get(wc_result, "data", EmptyObject), "workflow", EmptyObject)

ReturnedRequirements ==
    Get(Get(wc_result, "data", EmptyObject), "credentialRequirements", << >>)

\* Every credential requirement names its service.
RequirementsNamed ==
    \A i \in 1..Len(ReturnedRequirements) :
        "service" \in DOMAIN ReturnedRequirements[i]

\* C13: when the backend result is successful (its credential requirements
\* each naming a service), handle_generate_workflow returns
\* workflow_generated = true, node_count = the number of nodes of the returned
\* workflow, and a message that cites that count, names the service of every
\* credential requirement, and has no credential sentence when there are none.
C13_SuccessIsSummarised ==
    (GenerateSucceeded /\ RequirementsNamed) =>
        LET n == Len(Get(ReturnedWorkflow, "nodes", << >>)) IN
        /\ "workflow_generated" \in DOMAIN tool_response
        /\ tool_response.workflow_generated = TRUE
        /\ tool_response.node_count = n
        /\ Contains(Str(n) \o NodesWord, tool_response.message)
        /\ \A i \in 1..Len(ReturnedRequirements) :
              Contains(ReturnedRequirements[i].service, tool_response.message)
        /\ ReturnedRequirements = << >>
              => ~Contains(CredentialsWord, tool_response.message)

\* The handler answered the workflow with three nodes and two requirements:
\* its message cites 3 nodes and names gmail and slack.
C13_Witness ==
    /\ GenerateSucceeded
    /\ wc_result = TwoCredentialsJson
    /\ tool_response.node_count = 3
    /\ tool_response.message =
          DoneCreatedText \o << "3" >> \o NodesText \o CredentialsText
              \o GmailText \o CommaSpace \o SlackText \o FullStop \o DeployText

\* The latest tool call was search_nodes and the client's result for it is a
\* success with an empty node list and count 0.
SearchFoundNothing ==
    /\ wc_pc = "returned"
    /\ wc_request.op = "search_nodes"
    /\ wc_result = [success |-> TRUE, data |-> [nodes |-> << >>, count |-> 0]]

\* C14: when search returns success with an empty node list and count 0,
\* handle_search_nodes returns {found: false, count: 0} with a
\* try-another-term message and no error field.
C14_EmptySearchIsNotAnError ==
    SearchFoundNothing =>
        /\ DOMAIN tool_response = {"found", "count", "message"}
        /\ tool_response.found = FALSE
        /\ tool_response.count = 0
        /\ Contains(TryAnotherWords, tool_response.message)

\* The search for "airtable" found nothing and was answered so.
C14_Witness ==
    /\ SearchFoundNothing
    /\ wc_request.args.query = AirtableQuery
    /\ tool_response =
          [found |-> FALSE, count |-> 0,
           message |-> NoneFoundText \o AirtableQuery \o TryAnotherText]

\* C15 as stated: whatever the backend did, every handler that has ended
\* delivered exactly one result through the result callback and let no
\* exception escape (tool_exceptions counts those of handle_route_to_agent,
\* tool_errors those of the other two handlers).
C15_EveryCallAnswered ==
    /\ tool_exceptions = 0
    /\ tool_errors = 0
    /\ wc_pc # "posted" => tool_results = tool_calls

\* C16 as stated: once a tool call and the tasks it created have run, the
\* backend was sent exactly one request for it.
C16_OneBackendRequestPerCall ==
    (wc_pc # "posted" /\ relay_tasks = << >>) =>
        backend_posts + relay_posts = tool_calls

\* C16 amended: each generate_workflow or search_nodes tool call sends
\* exactly one generate-workflow or search-nodes request, whatever the
\* outcome, and never re-sends it; a generate_workflow call whose result is
\* successful also creates one task that posts the workflow once to the
\* backend's workflow-generated endpoint, and no other call creates one.
C16_OneRequestNoRetry ==
    /\ [](backend_posts = tool_calls)
    /\ [][\A r \in RouteRooms, a \in Answers :
             /\ (GenerateWorkflowReturns(r, a) \/ SearchNodesReturns(r, a)) =>
                   /\ backend_posts' = backend_posts
                   /\ relay_posts' = relay_posts
                   /\ Len(relay_tasks') = Len(relay_tasks) +
                         (IF GenerateSucceeded' THEN 1 ELSE 0)]_vars
    /\ [][\A i \in 1..Len(relay_tasks), o \in RelayOutcomes :
             send_workflow_to_backend(i, o) =>
                 /\ relay_posts' = relay_posts + 1
                 /\ Len(relay_tasks') = Len(relay_tasks) - 1
                 /\ backend_posts' = backend_posts]_vars

\* A generation succeeded and its workflow was relayed; a second call could
\* not reach the backend and was not sent again.
C16_Witness ==
    /\ tool_calls = 2
    /\ backend_posts = 2
    /\ relay_posts = 1
    /\ relay_tasks = << >>
    /\ wc_pc = "returned"
    /\ ~wc_answer.reached
    /\ tool_results = 2

\* The turns of the conversation: the messages of the user or the assistant.
Turns == {m \in Messages : MessageRole(m) \in {"user", "assistant"}}

\* The request a transcript task sends carries the task's role and content,
\* a timestamp, and the room name of its session as sessionId.
RequestsCarryTheTurn ==
    \A i \in 1..Len(transcript_tasks) :
        LET t == transcript_tasks[i] IN
        t.state # "created" =>
            /\ DOMAIN t.json =
                  {"userId", "role", "content", "timestamp", "sessionId"}
            /\ t.json.role = t.role
            /\ t.json.content = t.content
            /\ t.json.timestamp \in Timestamps
            /\ t.json.sessionId = t.room_name
            /\ t.room_name \in RouteRooms

\* C17 as stated: every time a user or assistant message is appended to the
\* context, exactly one live-transcript notification is spawned, carrying the
\* message's role and content, a timestamp and the room name as session id.
C17_EveryTurnIsRelayed ==
    /\ [][\A r \in RouteRooms, m \in Turns, res \in AddResults :
             add_message_with_live_transcript(r, m, res) =>
                 /\ Len(transcript_tasks') = Len(transcript_tasks) + 1
                 /\ Last(transcript_tasks').room_name = r
                 /\ Last(transcript_tasks').role = m.role
                 /\ Last(transcript_tasks').content = MessageText(m)]_vars
    /\ []RequestsCarryTheTurn

\* The message has text to relay: it is a dict, and its content, as a string
\* or in the text parts of a list, is not empty and does not hold the
\* system-prompt marker.
HasRelayableText(m) ==
    /\ ~ExtractionRaises(m)
    /\ MessageText(m) # << >>
    /\ ~Contains(SystemPromptMarker, MessageText(m))

\* C17 amended: every time a dict message whose role is not system and whose
\* text content is non-empty and free of the system-prompt marker is appended to
\* the context, exactly one live-transcript notification is spawned, carrying
\* the message's role and text content and, once it runs, a timestamp and the
\* room name as session id; for any other appended message none is spawned.
C17_TurnsWithTextAreRelayed ==
    /\ [][\A r \in RouteRooms, m \in Messages, res \in AddResults :
             add_message_with_live_transcript(r, m, res) =>
                 IF MessageRole(m) # "system" /\ HasRelayableText(m)
                 THEN transcript_tasks' = Append(transcript_tasks,
                          [room_name |-> r, role |-> MessageRole(m),
                           content |-> MessageText(m), state |-> "created",
                           json |-> NoPayload])
                 ELSE transcript_tasks' = transcript_tasks]_vars
    /\ []RequestsCarryTheTurn

\* The assistant's tool-call message and its turn in text parts were added:
\* one notification was spawned, and it was sent with the text of the parts.
C17_Witness ==
    /\ context_messages =
          << [role |-> "assistant", tool_calls |-> << "search_nodes" >>],
             [role |-> "assistant",
              content |-> ListContent(<< [type |-> "text", text |-> ReplyText],
                                         [type |-> "image"],
                                         [text |-> WhatCrmText] >>)] >>
    /\ Len(transcript_tasks) = 1
    /\ transcript_tasks[1].state = "sent"
    /\ transcript_tasks[1].json.role = "assistant"
    /\ transcript_tasks[1].json.content = ReplyText \o WhatCrmText
    /\ transcript_tasks[1].json.sessionId \in RouteRooms

\* C18: when the room request or the token request fails (a non-200 answer
\* or an exception), start_session answers HTTP 500, launches no pipeline unit
\* and leaves the session registry unchanged.
C18_FailedStartLaunchesNothing ==
    [][/\ \A u \in UserIds :
             StartSessionCreateRoom(u, FALSE) =>
                 /\ start_errors' = start_errors + 1
                 /\ start_responses' = start_responses
                 /\ bot' = bot
                 /\ active_sessions' = active_sessions
       /\ \A s \in starting :
             StartSessionCreateToken(s, FALSE) =>
                 /\ start_errors' = start_errors + 1
                 /\ start_responses' = start_responses
                 /\ bot' = bot
                 /\ active_sessions' = active_sessions]_vars

\* One call failed at the room request and one at the token request, its
\* room being created: both were answered 500 and no unit exists.
C18_Witness ==
    /\ start_errors = 2
    /\ Cardinality(daily_rooms) = 1
    /\ daily_tokens = {}
    /\ starting = {}
    /\ start_responses = {}
    /\ \A r \in RoomNames : bot[r] = "none"
    /\ active_sessions = << >>

\* The pipeline units launched so far, by the room name they were given.
Launched == {r \in RoomNames : bot[r] # "none"}

\* The room names returned to callers of start_session.
ReturnedRooms == {resp.room_name : resp \in start_responses}

\* C19: each start_session that returned successfully launched exactly one
\* pipeline unit, keyed by the room name it returned; the units launched are
\* as many as the successful calls, every call having failed, succeeded or
\* being between its two requests; a registry key is the room name of a
\* launched unit.
C19_OneUnitPerSuccessfulStart ==
    /\ Launched = ReturnedRooms
    /\ Cardinality(Launched) = Cardinality(start_responses)
    /\ start_calls =
          Cardinality(start_responses) + start_errors + Cardinality(starting)
    /\ \A r \in DOMAIN active_sessions :
          r \in ReturnedRooms /\ active_sessions[r].task = TaskOf(r)

\* Two calls succeeded: two units exist, registered under the two room names
\* returned.
C19_Witness ==
    /\ Cardinality(start_responses) = 2
    /\ start_errors = 0
    /\ Cardinality(Launched) = 2
    /\ DOMAIN active_sessions = ReturnedRooms

\* C20 as stated: the token start_session provisions for the caller is a
\* non-owner token scoped to the room created in the same call.
C20_TokenIsNonOwner ==
    \A resp \in start_responses :
        /\ resp.token.is_owner = FALSE
        /\ resp.token.room_name = resp.room_name
        /\ resp.room_name \in daily_rooms

\* C20 amended: the token start_session provisions for the caller is an owner
\* token (is_owner true) scoped to the room created in the same call.
C20_TokenIsOwnerOfItsRoom ==
    /\ \A resp \in start_responses :
          /\ resp.token.is_owner = TRUE
          /\ resp.token.room_name = resp.room_name
          /\ resp.room_name \in daily_rooms
          /\ resp.token \in daily_tokens
    /\ \A t \in daily_tokens : t.is_owner = TRUE /\ t.room_name \in daily_rooms

\* Two sessions were started: each caller holds the owner token of its room.
C20_Witness ==
    /\ Cardinality(start_responses) = 2
    /\ \A resp \in start_responses :
          resp.token = [room_name |-> resp.room_name, is_owner |-> TRUE]
    /\ Cardinality(daily_tokens) = 2

C22_RunningUnitIsRegistered ==
    \A r \in RoomNames :
        bot[r] = "running" =>
            /\ r \in DOMAIN active_sessions
            /\ active_sessions[r] =
                  [task |-> TaskOf(r), user_id |-> bot_user[r]]

\* Two pipelines run, one started by a user and one without user id, each
\* registered with its own task; one of them was asked to stop and still runs.
C22_Witness ==
    /\ \A r \in RoomNames : bot[r] = "running"
    /\ \E r, q \in RoomNames :
          /\ active_sessions[r] = [task |-> TaskOf(r), user_id |-> "u1"]
          /\ active_sessions[q] = [task |-> TaskOf(q), user_id |-> NoUser]
          /\ cancel_requested[TaskOf(r)]

\* The domains in the order the claim of C26 enumerates them.
DomainOrder == << "sales", "support", "operations", "technical" >>

\* The positions in DomainOrder of the domains holding the highest count.
TiedDomains ==
    {i \in 1..Len(DomainOrder) :
        \A j \in 1..Len(DomainOrder) :
            intent_scores[DomainOrder[j]] <= intent_scores[DomainOrder[i]]}

\* C26: when two or more domains share the highest nonzero keyword count,
\* analyze_intent returns the one of them that comes first in the order
\* sales, support, operations, technical.
C26_TieGoesToFirstDomain ==
    (/\ Analyzed
     /\ Cardinality(TiedDomains) >= 2
     /\ \E i \in TiedDomains : intent_scores[DomainOrder[i]] > 0) =>
        \E i \in TiedDomains :
            /\ intent = DomainOrder[i]
            /\ \A j \in TiedDomains : i <= j

\* "database " counts once for operations and once for technical and for
\* nothing else: the earlier of the two, operations, is returned.
C26_Witness ==
    /\ Analyzed
    /\ TiedDomains = {3, 4}
    /\ intent_scores["operations"] = 1
    /\ intent = "operations"

\* The latest client call returned the connection-failure shape:
\* {success: false, error: "Failed to connect to backend: ..."}.
ReportedAsUnreachable ==
    /\ wc_pc = "returned"
    /\ DOMAIN wc_result = {"success", "error"}
    /\ wc_result.success = FALSE
    /\ Len(wc_result.error) >= Len(ConnectErrorPrefix)
    /\ SubSeq(wc_result.error, 1, Len(ConnectErrorPrefix)) = ConnectErrorPrefix

\* C27 as stated: the connection-failure message is returned only when no
\* response arrived from the backend; a call the backend answered, with any
\* status and whether or not its body can be read and decoded, is never
\* reported as a connection failure.
C27_ConnectFailureOnlyWhenUnreached ==
    ReportedAsUnreachable => ~wc_answer.reached

\* The agent_switch messages of room r that were handed to the front end.
Emitted(r) ==
    SelectSeq(notifications[r],
              LAMBDA m : m.log = "Sent notification to frontend")

\* Each message of the sequence names as previous_agent the agent of the one
\* before it, the first one "orchestrator", and none names one agent twice.
Chained(messages) ==
    \A i \in 1..Len(messages) :
        /\ messages[i].type = "agent_switch"
        /\ messages[i].agent # messages[i].previous_agent
        /\ messages[i].previous_agent =
              IF i = 1 THEN "orchestrator" ELSE messages[i - 1].agent

\* C29 as stated: the agent_switch notifications emitted to the front end in
\* one session form a chain: each one's previous_agent is the agent of the
\* emitted notification before it, "orchestrator" for the first.
C29_EmittedNotificationsChain ==
    \A r \in RouteRooms : Chained(Emitted(r))

\* C29 amended: the notification of every switch carries agent = the new
\* label and previous_agent = the label current just before the switch, with
\* agent # previous_agent; the notifications of all switches of a session,
\* delivered or not, form the chain starting at "orchestrator", and the last
\* one names the current label.
C29_SwitchNotificationsChain ==
    /\ [][\A r \in RouteRooms, a \in AgentArgs, c \in Clients :
             (handle_route_to_agent(r, a, c) /\ current_agent_ref'[r] # current_agent_ref[r]) =>
                 /\ Len(notifications'[r]) = Len(notifications[r]) + 1
                 /\ Last(notifications'[r]).agent = current_agent_ref'[r]
                 /\ Last(notifications'[r]).previous_agent = current_agent_ref[r]
                 /\ Last(notifications'[r]).agent # Last(notifications'[r]).previous_agent]_vars
    /\ [](\A r \in RouteRooms :
             /\ Chained(notifications[r])
             /\ current_agent_ref[r] =
                   IF notifications[r] = << >> THEN "orchestrator"
                   ELSE Last(notifications[r]).agent)

\* Three switches, the second of which could not be delivered: the delivered
\* notifications skip it, the built ones chain through it.
C29_Witness ==
    \E r \in RouteRooms :
        /\ Len(notifications[r]) = 3
        /\ Len(Emitted(r)) = 2
        /\ notifications[r][2].log # "Sent notification to frontend"
        /\ Emitted(r)[2].previous_agent = notifications[r][2].agent
        /\ Emitted(r)[2].previous_agent # Emitted(r)[1].agent
        /\ current_agent_ref[r] = Emitted(r)[2].agent

\* The label values the claim of C30 allows.
Labels == {"orchestrator", "sales", "support", "operations", "technical"}

\* C30: the current label of every session is always one of orchestrator,
\* sales, support, operations, technical; a route call whose agent argument
\* is outside that set, or missing, leaves the label as it was and returns
\* {routed: false, error}.
C30_LabelStaysInTheSet ==
    /\ [](\A r \in DOMAIN current_agent_ref : current_agent_ref[r] \in Labels)
    /\ [][\A r \in RouteRooms, a \in AgentArgs \ Labels, c \in Clients :
             handle_route_to_agent(r, a, c) =>
                 /\ current_agent_ref' = current_agent_ref
                 /\ notifications' = notifications
                 /\ route_response'.room_name = r
                 /\ DOMAIN route_response'.response = {"routed", "error"}
                 /\ route_response'.response.routed = FALSE
                 /\ tool_exceptions' = tool_exceptions]_vars

\* A session routed to a specialist was then asked for an agent that does not
\* exist, and for none at all: it kept its label and answered routed = false.
C30_Witness ==
    \E r \in RouteRooms :
        /\ current_agent_ref[r] \in Specialists
        /\ route_calls >= 2
        /\ route_response.room_name = r
        /\ route_response.response \in
              {[routed |-> FALSE, error |-> << "Could not route to ", a >>] :
                   a \in {"billing", NoAgent}}

\* The nodes and the count of the latest client result.
ResultNodes == Get(Get(wc_result, "data", EmptyObject), "nodes", << >>)

ResultCount == Get(Get(wc_result, "data", EmptyObject), "count", 0)

\* The latest tool call was search_nodes and the handler answered it from a
\* successful result that lists nodes.
SearchListed ==
    /\ wc_pc = "returned"
    /\ wc_request.op = "search_nodes"
    /\ Get(wc_result, "success", FALSE)
    /\ ResultCount > 0
    /\ ResultNodes # << >>

\* C28: handle_search_nodes asks the search operation for limit 5, and the
\* nodes of its response are the first five of the backend's node list (all
\* of them when there are fewer), in the backend's order.
C28_AtMostFiveFromTheFront ==
    /\ wc_request.op = "search_nodes" =>
          /\ wc_request.args.limit = 5
          /\ wc_request.json.limit = 5
    /\ SearchListed =>
          /\ Len(tool_response.nodes) <= 5
          /\ Len(tool_response.nodes) =
                IF Len(ResultNodes) < 5 THEN Len(ResultNodes) ELSE 5
          /\ \A i \in 1..Len(tool_response.nodes) :
                tool_response.nodes[i] =
                    Get(ResultNodes[i], "name", UnknownText) \o ColonSpace
                        \o Get(ResultNodes[i], "description", << >>)

\* The backend listed six nodes and the response lists the first five.
C28_Witness ==
    /\ SearchListed
    /\ Len(ResultNodes) = 6
    /\ tool_response.count = 6
    /\ Len(tool_response.nodes) = 5
    /\ BeforeColon(tool_response.nodes[1]) = AirtableText
    /\ BeforeColon(tool_response.nodes[5]) = CronText

\* C24: the relay of a generated workflow is a task of its own that the
\* handler does not wait for: the handler ends, delivering its result, in the
\* step that creates the task and before the task has run; and the task,
\* whether its POST is answered, fails or times out, changes nothing of what
\* the handler delivered.
C24_RelayIsDetached ==
    /\ [][\A r \in RouteRooms, a \in Answers :
             (GenerateWorkflowReturns(r, a)
                  /\ Len(relay_tasks') > Len(relay_tasks)) =>
                 /\ relay_posts' = relay_posts
                 /\ relay_log' = relay_log
                 /\ tool_results' + tool_errors' = tool_results + tool_errors + 1
                 /\ RequirementsNamed' =>
                       /\ tool_results' = tool_results + 1
                       /\ tool_response'.workflow_generated = TRUE]_vars
    /\ [][\A i \in 1..Len(relay_tasks), o \in RelayOutcomes :
             send_workflow_to_backend(i, o) =>
                 /\ tool_results' = tool_results
                 /\ tool_response' = tool_response
                 /\ tool_errors' = tool_errors
                 /\ tool_calls' = tool_calls
                 /\ UNCHANGED clientVars]_vars

\* A generation was answered with workflow_generated = true; its relay then
\* failed, and the answer stands as delivered.
C24_Witness ==
    /\ GenerateSucceeded
    /\ tool_calls = 1
    /\ tool_results = 1
    /\ tool_errors = 0
    /\ tool_response.workflow_generated = TRUE
    /\ relay_tasks = << >>
    /\ relay_posts = 1
    /\ relay_log = "Failed to send via backend"

\* C25: context.add_message always appends the message with the original
\* method and returns what that method returned, also for a message whose
\* transcript extraction raises and whatever becomes of the transcript tasks;
\* no exception leaves it, and a transcript task that fails changes nothing of
\* the context or of what was returned.
C25_AppendIsNeverDisturbed ==
    /\ [][\A r \in RouteRooms, m \in Messages, res \in AddResults :
             add_message_with_live_transcript(r, m, res) =>
                 /\ context_messages' = Append(context_messages, m)
                 /\ add_result' = res
                 /\ add_errors' = add_errors]_vars
    /\ [][\A i \in 1..Len(transcript_tasks), now \in Timestamps, ok \in BOOLEAN :
             send_transcript_live(i, now, ok) =>
                 /\ context_messages' = context_messages
                 /\ add_result' = add_result
                 /\ add_errors' = add_errors]_vars
    /\ [](add_errors = 0)

\* A spoken turn was appended and its transcript task failed; then a message
\* object, whose extraction raises, was appended and its result returned.
C25_Witness ==
    /\ Len(context_messages) = 2
    /\ ExtractionRaises(context_messages[2])
    /\ ~ExtractionRaises(context_messages[1])
    /\ Len(transcript_tasks) = 1
    /\ transcript_tasks[1].state = "failed"
    /\ add_result = "added"
    /\ add_errors = 0

\* The registry entry of a room, and the label of its session, if any.
EntryOf(sessions, q) ==
    IF q \in DOMAIN sessions THEN sessions[q] ELSE [absent |-> TRUE]

LabelOf(labels, q) == IF q \in DOMAIN labels THEN labels[q] ELSE "none"

\* The step leaves the registry entry and the label of every session other
\* than that of room r as they were.
OthersUntouched(r) ==
    \A q \in PairRooms \ {r} :
        /\ EntryOf(active_sessions', q) = EntryOf(active_sessions, q)
        /\ LabelOf(current_agent_ref', q) = LabelOf(current_agent_ref, q)

\* C23: no action of one session (its unit registering or failing, its
\* cleanup, a route call in it, end_session for its room name) changes the
\* registry entry or the current label of another session.
C23_SessionsTouchOnlyTheirOwn ==
    [][\A r \in PairRooms :
          (\/ RunBotRegisters(r)
           \/ RunBotSetupFails(r)
           \/ \E how \in ExitKinds : PipelineEnds(r, how)
           \/ \E a \in AgentArgs, c \in Clients : handle_route_to_agent(r, a, c)
           \/ EndSessionCall(r)
           \/ EndSessionReturn(r)) => OthersUntouched(r)]_vars

\* One session was routed to sales, ended by end_session and cleaned up; the
\* other, routed to support, is still registered with its own task and label.
C23_Witness ==
    \E r, q \in PairRooms :
        /\ r # q
        /\ bot[r] = "done"
        /\ cancel_requested[TaskOf(r)]
        /\ ~Registered(r)
        /\ current_agent_ref[r] = "sales"
        /\ bot[q] = "running"
        /\ active_sessions[q] = [task |-> TaskOf(q), user_id |-> bot_user[q]]
        /\ ~cancel_requested[TaskOf(q)]
        /\ current_agent_ref[q] = "support"

\* The response of a route call that did not route to the agent it names.
NotRouted(agent) == [routed |-> FALSE, error |-> << "Could not route to ", agent >>]

\* C31: the response of a route call has routed = true exactly when the call
\* changed the session's current label; a call naming the current label gets
\* the same {routed: false, error: "Could not route to <agent>"} response as
\* a call naming an unknown or missing agent.
C31_RoutedIffLabelChanged ==
    [][\A r \in RouteRooms, a \in AgentArgs, c \in Clients :
          handle_route_to_agent(r, a, c) =>
              /\ route_response'.room_name = r
              /\ route_response'.response.routed =
                    (current_agent_ref'[r] # current_agent_ref[r])
              /\ (a = current_agent_ref[r] \/ a \notin Labels) =>
                    route_response'.response = NotRouted(a)]_vars

\* A session switched twice and was then asked for the specialist it already
\* has: the third call switched nothing and answered as for an unknown agent.
C31_Witness ==
    \E r \in RouteRooms :
        /\ route_calls = 3
        /\ Len(notifications[r]) = 2
        /\ current_agent_ref[r] \in Specialists
        /\ route_response.room_name = r
        /\ route_response.response = NotRouted(current_agent_ref[r])

====
